---- MODULE Spec2Model ----
(***************************************************************************)
(* BrewyBackend: the order ledger, the checkout-session routes, and the    *)
(* inbound webhooks, as state machines over the document store.            *)
(*                                                                         *)
(* Identifiers are pairs <<kind, n>> (BREWY_<n>, ORD_<n>, ...); an absent  *)
(* identifier or signature is the empty tuple, an absent string is NONE.   *)
(* An HMAC digest is the symbolic term <<"hmac", secret, message>>: two    *)
(* digests are equal exactly when secret and message are.                  *)
(***************************************************************************)
EXTENDS Integers, Sequences, FiniteSets, TLC

VARIABLES env, products, collections, orders, now, pending, req, resp,
          authToken, tokenExpiry

vars == <<env, products, collections, orders, now, pending, req, resp,
          authToken, tokenExpiry>>

\* ------------------------------------------------------------- bounds
MaxOrders == 2
MaxQty == 2
MaxInflight == 1

\* ---------------------------------------------------------- constants
NONE == "none"
NoId == <<>>
NoSig == <<>>

\* The number that is no number (an absent or unparsable numeric value).
NaN == -1

\* x || fallback for a number: NaN and 0 are falsy.
OrElse(x, fallback) == IF x = NaN \/ x = 0 THEN fallback ELSE x

Statuses == {"created", "paid", "failed", "shipped", "delivered"}

\* The transition table of the order state machine (spec 4.3).
TransitionTable ==
    { <<"created", "paid">>, <<"created", "failed">>, <<"paid", "shipped">>,
      <<"paid", "failed">>, <<"shipped", "delivered">> }

\* ------------------------------------------------------ configuration
\* process.env of a fully configured deployment.
ConfiguredEnv ==
    [ ADMIN_PASSWORD |-> "admin_pw", JWT_SECRET |-> "jwt_secret",
      RAZORPAY_KEY_SECRET |-> "rzp_secret",
      SHIPROCKET_API_KEY |-> "sr_key", SHIPROCKET_API_SECRET |-> "sr_secret",
      NODE_ENV |-> "production" ]

\* ------------------------------------------------ requests, responses
\* req is the request handled last (the fields of it the properties read),
\* resp what it was answered.
\* A request the handler made to a collaborator: the endpoint and, where the
\* model looks at it, the data sent.
NoData == <<>>

Call(endpoint, data) == [endpoint |-> endpoint, data |-> data]

\* What a request answered: the route, the HTTP status, the error string,
\* and the collaborator calls the handler made, in order.
Reply(op, code, error, calls) ==
    [op |-> op, code |-> code, error |-> error, calls |-> calls]

Response(op, code, error) == Reply(op, code, error, <<>>)

NoResponse == Response("boot", 0, NONE)

\* The request is waiting for a collaborator and has answered nothing yet.
Awaiting(op) == Response(op, 0, NONE)

\* ------------------------------------------------------- crypto terms
Hmac(secret, message) == <<"hmac", secret, message>>

\* jwt.sign(payload, secret) as a term; jwt.verify accepts a token signed
\* with the same secret.
JwtSign(role, secret) == <<"jwt", secret, role>>

\* ------------------------------------------------- middleware/auth.ts
JwtSecret == IF env.JWT_SECRET = NONE THEN "secret" ELSE env.JWT_SECRET

\* authenticateAdmin: "next", or the 401 it answers with.
AuthenticateAdmin(hdr) ==
    IF hdr.password = env.ADMIN_PASSWORD THEN "next"
    ELSE IF hdr.token = <<>> THEN "Authentication required"
    ELSE IF hdr.token[2] = JwtSecret THEN "next"
    ELSE "Invalid authentication token"

\* ------------------------------------------------------- Order model
\* new Order(data): the schema's defaults (status 'created').
OrderDoc(data) ==
    [ razorpayOrderId |-> data.razorpayOrderId,
      razorpayPaymentId |-> NONE,
      razorpaySignature |-> NoSig,
      amount |-> data.amount,
      status |-> IF data.status = NONE THEN "created" ELSE data.status,
      customer |-> data.customer,
      items |-> data.items,
      shiprocketOrderId |-> NoId,
      shiprocketShipmentId |-> NoId,
      trackingUrl |-> NONE ]

\* The validators order.save() runs: required fields and the status enum.
ItemValid(item) ==
    /\ item.productId # NONE
    /\ item.quantity # 0
    /\ item.price # -1

OrderValid(orderId, data) ==
    /\ orderId # NoId
    /\ data.razorpayOrderId # NoId
    /\ data.amount # -1
    /\ data.customer # NONE
    /\ data.status \in Statuses \cup {NONE}
    /\ \A i \in 1..Len(data.items) : ItemValid(data.items[i])

\* An order.save() that no unique index guards.
CanInsertUnindexed(orderId, data) == OrderValid(orderId, data)

\* order.save() of a new document: the unique index on orderId rejects a
\* second document with the same orderId.
CanInsert(orderId, data) ==
    /\ OrderValid(orderId, data)
    /\ orderId \notin DOMAIN orders

Insert(orderId, data) == orders @@ (orderId :> OrderDoc(data))

\* findOneAndUpdate({orderId}, update): the fields of update replace the
\* stored ones; the document is otherwise untouched.
Found(orderId) == orderId \in DOMAIN orders

\* ---------------------------------------------- collaborator outcomes
\* A service call ends in success, in a failure that carries the
\* collaborator's message, or in one that carries none (no response, or the
\* login failed), for which the service substitutes its own text.
Outcomes == {"ok", "fail_msg", "fail_nomsg"}

CollabError(outcome, fallback) ==
    IF outcome = "fail_msg" THEN "collaborator message" ELSE fallback

\* ------------------------- services/shiprocket.ts, shiprocket-faster.ts
\* Each of the two service modules keeps its own authToken and tokenExpiry.
Services == {"shiprocket", "faster"}

\* authToken = null
NoToken == <<>>

\* response.data.token of the login that the requester issued.
Token(requester) == <<"tok", requester>>

\* 9 * 24 * 60 * 60 * 1000
TokenTtl == 777600000

CachedValidAtExpiry(service) ==
    authToken[service] # NoToken /\ now <= tokenExpiry[service]

\* if (authToken && Date.now() < tokenExpiry)
CachedValid(service) ==
    authToken[service] # NoToken /\ now < tokenExpiry[service]

\* The token cache after a route's request: when the request called a
\* function of the service and the cached token was not valid, the function
\* logged in first. A call that succeeded or failed with the collaborator's
\* message had a login that succeeded; one that failed without a message
\* failed at the login or after it.
UseService(service, outcome, called) ==
    \E login \in (IF ~called \/ CachedValid(service) THEN {"none"}
                  ELSE IF outcome = "fail_nomsg" THEN {"ok", "failed"}
                  ELSE {"ok"}) :
        /\ authToken' = IF login = "ok"
                        THEN [authToken EXCEPT ![service] = Token(0)]
                        ELSE authToken
        /\ tokenExpiry' = IF login = "ok"
                          THEN [tokenExpiry EXCEPT ![service] = now + TokenTtl]
                          ELSE tokenExpiry

\* ------------------------------------------------- routes/orders.ts
\* POST /api/orders
PostOrder(body) ==
    /\ IF CanInsert(body.orderId, body)
       THEN /\ Cardinality(DOMAIN orders) < MaxOrders
            /\ orders' = Insert(body.orderId, body)
            /\ resp' = Response("POST /orders", 201, NONE)
       ELSE /\ orders' = orders
            /\ resp' = Response("POST /orders", 500, "Failed to create order")
    /\ req' = [op |-> "POST /orders"]
    /\ UNCHANGED <<env, authToken, tokenExpiry, products, collections, now, pending>>

\* PATCH /api/orders/:orderId/status (admin)
PatchStatus(hdr, orderId, status) ==
    /\ IF AuthenticateAdmin(hdr) # "next"
       THEN /\ orders' = orders
            /\ resp' = Response("PATCH /orders/status", 401, AuthenticateAdmin(hdr))
       ELSE IF ~Found(orderId)
       THEN /\ orders' = orders
            /\ resp' = Response("PATCH /orders/status", 404, "Order not found")
       ELSE /\ orders' = [orders EXCEPT ![orderId].status = status]
            /\ resp' = Response("PATCH /orders/status", 200, NONE)
    /\ req' = [op |-> "PATCH /orders/status", orderId |-> orderId]
    /\ UNCHANGED <<env, authToken, tokenExpiry, products, collections, now, pending>>

\* PATCH /api/orders/:orderId/payment
PatchPayment(orderId, razorpayPaymentId, razorpaySignature, status) ==
    /\ IF ~Found(orderId)
       THEN /\ orders' = orders
            /\ resp' = Response("PATCH /orders/payment", 404, "Order not found")
       ELSE /\ orders' = [orders EXCEPT
                             ![orderId].razorpayPaymentId = razorpayPaymentId,
                             ![orderId].razorpaySignature = razorpaySignature,
                             ![orderId].status =
                                 IF status = NONE THEN "paid" ELSE status]
            /\ resp' = Response("PATCH /orders/payment", 200, NONE)
    /\ req' = [op |-> "PATCH /orders/payment", orderId |-> orderId]
    /\ UNCHANGED <<env, authToken, tokenExpiry, products, collections, now, pending>>

\* PATCH /api/orders/:orderId/shipment (admin)
PatchShipment(hdr, orderId, shiprocketOrderId, shiprocketShipmentId, trackingUrl) ==
    /\ IF AuthenticateAdmin(hdr) # "next"
       THEN /\ orders' = orders
            /\ resp' = Response("PATCH /orders/shipment", 401, AuthenticateAdmin(hdr))
       ELSE IF ~Found(orderId)
       THEN /\ orders' = orders
            /\ resp' = Response("PATCH /orders/shipment", 404, "Order not found")
       ELSE /\ orders' = [orders EXCEPT
                             ![orderId].shiprocketOrderId = shiprocketOrderId,
                             ![orderId].shiprocketShipmentId = shiprocketShipmentId,
                             ![orderId].trackingUrl = trackingUrl,
                             ![orderId].status = "shipped"]
            /\ resp' = Response("PATCH /orders/shipment", 200, NONE)
    /\ req' = [op |-> "PATCH /orders/shipment", orderId |-> orderId]
    /\ UNCHANGED <<env, authToken, tokenExpiry, products, collections, now, pending>>

\* ------------------------------------- payment routes, services/razorpay
\* verifyRazorpayPayment: the expected signature is the HMAC of
\* razorpayOrderId + "|" + razorpayPaymentId (a pair: the ids hold no "|")
\* under RAZORPAY_KEY_SECRET; createHmac throws on an unset secret, which the
\* catch turns into false.
\* A verification that accepts any digest that is present.
verifyRazorpayPaymentAnyDigest(razorpayOrderId, razorpayPaymentId, razorpaySignature) ==
    razorpaySignature # NoSig

verifyRazorpayPayment(razorpayOrderId, razorpayPaymentId, razorpaySignature) ==
    IF env.RAZORPAY_KEY_SECRET = NONE THEN FALSE
    ELSE Hmac(env.RAZORPAY_KEY_SECRET, <<razorpayOrderId, razorpayPaymentId>>)
            = razorpaySignature

\* The order verify-payment updates: { orderId: orderId || razorpayOrderId }.
VerifyTarget(razorpayOrderId, orderId) ==
    IF orderId # NoId THEN orderId ELSE razorpayOrderId

\* POST /api/payment/verify-payment
VerifyPayment(razorpayOrderId, razorpayPaymentId, razorpaySignature, orderId) ==
    /\ IF \/ razorpayOrderId = NoId
          \/ razorpayPaymentId = NONE
          \/ razorpaySignature = NoSig
       THEN /\ orders' = orders
            /\ resp' = Response("POST /payment/verify-payment", 400,
                                "Missing payment verification data")
       ELSE IF ~verifyRazorpayPayment(razorpayOrderId, razorpayPaymentId,
                                      razorpaySignature)
       THEN /\ orders' = orders
            /\ resp' = Response("POST /payment/verify-payment", 400,
                                "Invalid payment signature")
       ELSE IF ~Found(VerifyTarget(razorpayOrderId, orderId))
       THEN /\ orders' = orders
            /\ resp' = Response("POST /payment/verify-payment", 404,
                                "Order not found")
       ELSE /\ orders' = [orders EXCEPT
                 ![VerifyTarget(razorpayOrderId, orderId)].razorpayPaymentId =
                     razorpayPaymentId,
                 ![VerifyTarget(razorpayOrderId, orderId)].razorpaySignature =
                     razorpaySignature,
                 ![VerifyTarget(razorpayOrderId, orderId)].status = "paid"]
            /\ resp' = Response("POST /payment/verify-payment", 200, NONE)
    /\ req' = [op |-> "POST /payment/verify-payment",
               razorpayOrderId |-> razorpayOrderId,
               razorpayPaymentId |-> razorpayPaymentId,
               razorpaySignature |-> razorpaySignature, orderId |-> orderId]
    /\ UNCHANGED <<env, authToken, tokenExpiry, products, collections, now, pending>>

\* ------------------------------------------------ routes/shipment.ts
\* The ids the shipping collaborator assigns to the shipment of an order.
SrOrderId(orderId) == <<"sr", orderId[2]>>
SrShipmentId(orderId) == <<"shp", orderId[2]>>

Max2(a, b) == IF a >= b THEN a ELSE b

\* product.dimensions of the stored product, where it has any.
HasDimensions(productId) == "dimensions" \in DOMAIN products[productId]

RECURSIVE Aggregate(_, _, _)
\* The loop over order.items: the running package [length, breadth, height,
\* weight] after items i.. are added. An item whose product is not in the
\* catalog adds nothing. Weights are in hundredths of a kilogram.
Aggregate(items, i, acc) ==
    IF i > Len(items) THEN acc
    ELSE IF items[i].productId \notin DOMAIN products
    THEN Aggregate(items, i + 1, acc)
    ELSE IF HasDimensions(items[i].productId)
    THEN LET dim == products[items[i].productId].dimensions IN
         Aggregate(items, i + 1,
                   [ length |-> Max2(acc.length, OrElse(dim.length, 10)),
                     breadth |-> Max2(acc.breadth, OrElse(dim.breadth, 10)),
                     height |-> Max2(acc.height, OrElse(dim.height, 10)),
                     weight |-> acc.weight + OrElse(dim.weight, 50) * items[i].quantity ])
    ELSE Aggregate(items, i + 1,
                   [acc EXCEPT !.weight = acc.weight + 50 * items[i].quantity])

\* length, breadth, height and weight of shiprocketData: the loop starts
\* from maxLength = maxBreadth = maxHeight = 10 and totalWeight = 0.
Package(order) ==
    Aggregate(order.items, 1,
              [length |-> 10, breadth |-> 10, height |-> 10, weight |-> 0])

\* No precondition on the status at all.
ShipmentAllowedAlways(order) == order.status \in Statuses

\* A precondition that only refuses what was shipped already.
ShipmentAllowedUnlessShipped(order) == order.status \notin {"shipped", "delivered"}

\* A precondition that also refuses while a request is in flight.
ShipmentAllowedUnlessInFlight(order) == order.status = "paid" /\ pending = {}

\* The precondition of POST /shipment/create.
ShipmentAllowed(order) == order.status = "paid"

\* POST /api/shipment/create (admin); outcome is createShiprocketOrder's.
ShipmentCreate(hdr, orderId, outcome) ==
    /\ IF AuthenticateAdmin(hdr) # "next"
       THEN /\ orders' = orders
            /\ resp' = Response("POST /shipment/create", 401, AuthenticateAdmin(hdr))
       ELSE IF orderId = NoId
       THEN /\ orders' = orders
            /\ resp' = Response("POST /shipment/create", 400, "Order ID is required")
       ELSE IF ~Found(orderId)
       THEN /\ orders' = orders
            /\ resp' = Response("POST /shipment/create", 404, "Order not found")
       ELSE IF ~ShipmentAllowed(orders[orderId])
       THEN /\ orders' = orders
            /\ resp' = Response("POST /shipment/create", 400,
                                "Order must be paid before creating shipment")
       ELSE IF outcome # "ok"
       THEN /\ orders' = orders
            /\ resp' = Reply("POST /shipment/create", 500,
                             CollabError(outcome, "Failed to create Shiprocket order"),
                             <<Call("orders/create/adhoc", Package(orders[orderId]))>>)
       ELSE /\ orders' = [orders EXCEPT
                             ![orderId].shiprocketOrderId = SrOrderId(orderId),
                             ![orderId].shiprocketShipmentId = SrShipmentId(orderId),
                             ![orderId].status = "shipped"]
            /\ resp' = Reply("POST /shipment/create", 200, NONE,
                             <<Call("orders/create/adhoc", Package(orders[orderId]))>>)
    /\ req' = [op |-> "POST /shipment/create", hdr |-> hdr, orderId |-> orderId]
    /\ UseService("shiprocket", outcome, resp'.calls # <<>>)
    /\ UNCHANGED <<env, products, collections, now, pending>>

\* A cancellation that removes the order from the store.
Deleted(orderId) == [o \in DOMAIN orders \ {orderId} |-> orders[o]]

\* A cancellation that also sets the amount to zero.
MarkFailedRefunded(orderId) ==
    IF orderId \in DOMAIN orders
    THEN [orders EXCEPT ![orderId].status = "failed", ![orderId].amount = 0]
    ELSE orders

\* findOneAndUpdate({orderId}, {status: 'failed'}) whose result the cancel
\* routes do not look at: a missing order is left missing.
MarkFailed(orderId) ==
    IF Found(orderId) THEN [orders EXCEPT ![orderId].status = "failed"] ELSE orders

\* A cancellation that marks the order failed before the collaborator answers.
ShipmentCancelOptimistic(hdr, orderId, outcome) ==
    /\ IF AuthenticateAdmin(hdr) # "next"
       THEN /\ orders' = orders
            /\ resp' = Response("POST /shipment/cancel", 401, AuthenticateAdmin(hdr))
       ELSE IF orderId = NoId
       THEN /\ orders' = orders
            /\ resp' = Response("POST /shipment/cancel", 400, "Order ID is required")
       ELSE IF outcome # "ok"
       THEN /\ orders' = MarkFailed(orderId)
            /\ resp' = Reply("POST /shipment/cancel", 500,
                             CollabError(outcome, "Failed to cancel shipment"),
                             <<Call("orders/cancel", NoData)>>)
       ELSE /\ orders' = MarkFailed(orderId)
            /\ resp' = Reply("POST /shipment/cancel", 200, NONE,
                             <<Call("orders/cancel", NoData)>>)
    /\ req' = [op |-> "POST /shipment/cancel", orderId |-> orderId]
    /\ UseService("shiprocket", outcome, resp'.calls # <<>>)
    /\ UNCHANGED <<env, products, collections, now, pending>>

\* POST /api/shipment/cancel (admin); outcome is cancelShipment's.
ShipmentCancel(hdr, orderId, outcome) ==
    /\ IF AuthenticateAdmin(hdr) # "next"
       THEN /\ orders' = orders
            /\ resp' = Response("POST /shipment/cancel", 401, AuthenticateAdmin(hdr))
       ELSE IF orderId = NoId
       THEN /\ orders' = orders
            /\ resp' = Response("POST /shipment/cancel", 400, "Order ID is required")
       ELSE IF outcome # "ok"
       THEN /\ orders' = orders
            /\ resp' = Reply("POST /shipment/cancel", 500,
                             CollabError(outcome, "Failed to cancel shipment"),
                             <<Call("orders/cancel", NoData)>>)
       ELSE /\ orders' = MarkFailed(orderId)
            /\ resp' = Reply("POST /shipment/cancel", 200, NONE,
                             <<Call("orders/cancel", NoData)>>)
    /\ req' = [op |-> "POST /shipment/cancel", orderId |-> orderId]
    /\ UseService("shiprocket", outcome, resp'.calls # <<>>)
    /\ UNCHANGED <<env, products, collections, now, pending>>

\* ------------------------------ routes/faster-checkout (orders.ts 130-403)
\* POST /api/faster-checkout/verify; outcome and result are
\* verifyFasterCheckout's.
FasterVerify(checkoutId, orderId, outcome, result) ==
    /\ IF checkoutId = NoId
       THEN /\ orders' = orders
            /\ resp' = Response("POST /faster-checkout/verify", 400,
                                "Checkout ID is required")
       ELSE IF outcome # "ok"
       THEN /\ orders' = orders
            /\ resp' = Reply("POST /faster-checkout/verify", 500,
                             CollabError(outcome, "Failed to verify Faster Checkout"),
                             <<Call("faster/checkout/get", NoData)>>)
       ELSE IF ~Found(VerifyTarget(result.order_id, orderId))
       THEN /\ orders' = orders
            /\ resp' = Reply("POST /faster-checkout/verify", 404, "Order not found",
                             <<Call("faster/checkout/get", NoData)>>)
       ELSE /\ orders' = [orders EXCEPT
                 ![VerifyTarget(result.order_id, orderId)].status =
                     IF result.payment_status = "paid" THEN "paid" ELSE "created",
                 ![VerifyTarget(result.order_id, orderId)].shiprocketOrderId =
                     result.order_id,
                 ![VerifyTarget(result.order_id, orderId)].shiprocketShipmentId =
                     result.shipment_id,
                 ![VerifyTarget(result.order_id, orderId)].trackingUrl =
                     result.tracking_url]
            /\ resp' = Reply("POST /faster-checkout/verify", 200, NONE,
                             <<Call("faster/checkout/get", NoData)>>)
    /\ req' = [op |-> "POST /faster-checkout/verify"]
    /\ UseService("faster", outcome, resp'.calls # <<>>)
    /\ UNCHANGED <<env, products, collections, now, pending>>

\* POST /api/faster-checkout/cancel (admin); outcome is cancelFasterCheckout's.
FasterCancel(hdr, orderId, outcome) ==
    /\ IF AuthenticateAdmin(hdr) # "next"
       THEN /\ orders' = orders
            /\ resp' = Response("POST /faster-checkout/cancel", 401,
                                AuthenticateAdmin(hdr))
       ELSE IF orderId = NoId
       THEN /\ orders' = orders
            /\ resp' = Response("POST /faster-checkout/cancel", 400,
                                "Order ID is required")
       ELSE IF outcome # "ok"
       THEN /\ orders' = orders
            /\ resp' = Reply("POST /faster-checkout/cancel", 500,
                             CollabError(outcome, "Failed to cancel order"),
                             <<Call("faster/orders/cancel", NoData)>>)
       ELSE /\ orders' = MarkFailed(orderId)
            /\ resp' = Reply("POST /faster-checkout/cancel", 200, NONE,
                             <<Call("faster/orders/cancel", NoData)>>)
    /\ req' = [op |-> "POST /faster-checkout/cancel", orderId |-> orderId]
    /\ UseService("faster", outcome, resp'.calls # <<>>)
    /\ UNCHANGED <<env, products, collections, now, pending>>

\* The status the webhook writes: payment_status first, then a shipment_status
\* of shipped or delivered overrides it; NONE when it writes no status.
WebhookStatus(body) ==
    IF body.shipment_status \in {"shipped", "delivered"} THEN body.shipment_status
    ELSE IF body.payment_status = NONE THEN NONE
    ELSE IF body.payment_status = "paid" THEN "paid"
    ELSE "failed"

\* POST /api/faster-checkout/webhook: the route has no middleware, and the
\* handler reads no header (hdr is what the request carried).
FasterWebhook(hdr, body) ==
    /\ IF body.order_id = NoId
       THEN /\ orders' = orders
            /\ resp' = Response("POST /faster-checkout/webhook", 400,
                                "Invalid webhook data")
       ELSE IF ~Found(body.order_id)
       THEN /\ orders' = orders
            /\ resp' = Response("POST /faster-checkout/webhook", 404,
                                "Order not found")
       ELSE /\ orders' = [orders EXCEPT
                 ![body.order_id].status =
                     IF WebhookStatus(body) = NONE THEN @ ELSE WebhookStatus(body),
                 ![body.order_id].trackingUrl =
                     IF body.tracking_url = NONE THEN @ ELSE body.tracking_url]
            /\ resp' = Response("POST /faster-checkout/webhook", 200, NONE)
    /\ req' = [op |-> "POST /faster-checkout/webhook", hdr |-> hdr, body |-> body]
    /\ UNCHANGED <<env, authToken, tokenExpiry, products, collections, now, pending>>

\* --------------------------------------------------- catalog models
\* A name is a sequence of words and whitespace characters, so that
\* toLowerCase and replace(/\s+/g, '-') are computed on it.
Whitespace == {" ", "\t"}

Lower(tok) ==
    CASE tok = "Grape" -> "grape"
      [] tok = "Brewy" -> "brewy"
      [] tok = "Berry" -> "berry"
      [] tok = "Lemon" -> "lemon"
      [] tok = "Lime" -> "lime"
      [] tok = "Watermelon" -> "watermelon"
      [] tok = "Collection" -> "collection"
      [] OTHER -> tok

RECURSIVE Slug(_)
\* name.toLowerCase().replace(/\s+/g, '-')
Slug(name) ==
    IF name = <<>> THEN <<>>
    ELSE IF Head(name) \in Whitespace
    THEN IF Len(name) > 1 /\ name[2] \in Whitespace
         THEN Slug(Tail(name))
         ELSE <<"-">> \o Slug(Tail(name))
    ELSE <<Lower(Head(name))>> \o Slug(Tail(name))

\* parseFloat of the strings the partner sends; NaN for what is no number.
ParseFloat(str) ==
    CASE str = "49" -> 49
      [] str = "59" -> 59
      [] str = "0.35" -> 35
      [] OTHER -> NaN

\* Weights are in hundredths of a kilogram (0.35 kg is 35, 0.5 kg is 50).
SeedProducts ==
    ( "prod_grape" :>
        [ price |-> 49,
          dimensions |-> [length |-> 6, breadth |-> 6, height |-> 12, weight |-> 35],
          name |-> <<"Grape", " ", "Brewy">>,
          flavor |-> "grape", description |-> "grape",
          handle |-> <<"grape">>, images |-> <<"/labels/grape.png">>,
          stock |-> 100,
          availableForSale |-> TRUE,
          variants |-> <<[price |-> 49, availableForSale |-> TRUE,
                          id |-> "var_grape_single", title |-> "Single Can",
                          sku |-> "GR-SINGLE"]>>,
          updatedAt |-> 0 ] ) @@
    ( "prod_lemon_lime" :>
        [ price |-> 30,
          dimensions |-> [length |-> 6, breadth |-> 6, height |-> 12, weight |-> 35],
          name |-> <<"Lemon", " ", "Lime">>,
          flavor |-> "lemonLime", description |-> "lemon",
          handle |-> <<"lemon-lime">>, images |-> <<"/labels/lemon-lime.png">>,
          stock |-> 100,
          availableForSale |-> TRUE,
          variants |-> <<[price |-> 30, availableForSale |-> TRUE,
                          id |-> "var_lemon_lime_single", title |-> "Single Can",
                          sku |-> "LL-SINGLE"]>>,
          updatedAt |-> 0 ] ) @@
    ( "prod_watermelon" :>
        [ price |-> 49,
          dimensions |-> [length |-> 6, breadth |-> 6, height |-> 12, weight |-> 35],
          name |-> <<"Watermelon">>,
          flavor |-> "watermelon", description |-> "watermelon",
          handle |-> <<"watermelon">>, images |-> <<"/labels/watermelon.png">>,
          stock |-> 0,
          availableForSale |-> FALSE,
          variants |-> <<[price |-> 49, availableForSale |-> TRUE,
                          id |-> "var_watermelon_single", title |-> "Single Can",
                          sku |-> "WM-SINGLE"]>>,
          updatedAt |-> 0 ] )

SeedCollections ==
    ( "coll_berry" :>
        [ name |-> <<"Berry", " ", "Collection">>, description |-> "berry",
          handle |-> <<"berry">>, updatedAt |-> 0,
          productIds |-> <<"prod_grape", "prod_watermelon">>,
          image |-> "/collections/berry.jpg" ] )

\* An upsert that pushes the update's images onto the stored ones.
UpsertPushingImages(store, id, update) ==
    IF id \in DOMAIN store
    THEN [store EXCEPT ![id] =
            [f \in DOMAIN store[id] \cup DOMAIN update |->
                IF f = "images" /\ f \in DOMAIN update /\ f \in DOMAIN store[id]
                THEN store[id][f] \o update[f]
                ELSE IF f \in DOMAIN update THEN update[f] ELSE store[id][f]]]
    ELSE store @@ (id :> update)

\* An upsert that replaces the whole document by the update.
UpsertReplacingDocument(store, id, update) ==
    IF id \in DOMAIN store
    THEN [store EXCEPT ![id] = update]
    ELSE store @@ (id :> update)

\* findOneAndUpdate(filter, update, {upsert: true}): the fields of update
\* replace the stored ones, the others stay; a missing document is created
\* from the update alone.
Upsert(store, id, update) ==
    IF id \in DOMAIN store
    THEN [store EXCEPT ![id] =
            [f \in DOMAIN store[id] \cup DOMAIN update |->
                IF f \in DOMAIN update THEN update[f] ELSE store[id][f]]]
    ELSE store @@ (id :> update)

\* The unique index on handle: another document holds this handle.
HandleTaken(store, id, handle) ==
    \E other \in DOMAIN store \ {id} :
        "handle" \in DOMAIN store[other] /\ store[other].handle = handle

\* ------------------------------------- routes/shiprocket-webhooks.ts
\* JSON.stringify(req.body): the canonical text of a parsed body. The text
\* the sender signed may be another serialisation of the same body.
Stringify(body) == <<"json", body>>
PrettyText(body) == <<"json-pretty", body>>

\* process.env.SHIPROCKET_API_SECRET || ''
WebhookSecret ==
    IF env.SHIPROCKET_API_SECRET = NONE THEN "" ELSE env.SHIPROCKET_API_SECRET

\* A verifier that compares the API key and no signature.
verifyHMACKeyOnly(hdr, body) ==
    IF hdr.signature = NoSig \/ hdr.apiKey = NONE
    THEN "Missing authentication headers"
    ELSE IF hdr.apiKey # env.SHIPROCKET_API_KEY THEN "Invalid API key"
    ELSE "next"

\* verifyHMAC: "next", or the 401 it answers with. hdr holds the X-Api-Key
\* and X-Api-HMAC-SHA256 headers.
verifyHMAC(hdr, body) ==
    IF hdr.signature = NoSig \/ hdr.apiKey = NONE
    THEN "Missing authentication headers"
    ELSE IF hdr.apiKey # env.SHIPROCKET_API_KEY THEN "Invalid API key"
    ELSE IF Hmac(WebhookSecret, Stringify(body)) # hdr.signature
    THEN "Invalid HMAC signature"
    ELSE "next"

\* The variant list of a product webhook, mapped to the stored shape.
MapVariants(body) ==
    [ i \in 1..Len(body.variants) |->
        [ price |-> OrElse(ParseFloat(body.variants[i].price), 0),
          availableForSale |-> (body.status = "active"),
          id |-> body.variants[i].id,
          title |-> body.variants[i].title,
          sku |-> IF body.variants[i].sku = NONE THEN body.variants[i].id
                  ELSE body.variants[i].sku ] ]

\* updateData of the product webhook: only the fields the payload yields.
ProductUpdate(body) ==
    LET base ==
            [ name |-> body.title, flavor |-> IF body.product_type = NONE THEN "Beverages"
                         ELSE body.product_type,
              description |-> IF body.body_html = NONE THEN "" ELSE body.body_html,
              availableForSale |-> (body.status = "active"),
              id |-> body.id,
              updatedAt |-> body.updated_at ]
        hasVariants == Len(body.variants) > 0
        primaryVariant == body.variants[1]
        fromVariants ==
            IF hasVariants
            THEN [ price |-> OrElse(ParseFloat(primaryVariant.price), 0),
                   stock |-> OrElse(primaryVariant.quantity, 0),
                   variants |-> MapVariants(body) ]
            ELSE <<>>
        dims ==
            IF hasVariants /\ primaryVariant.weight # NONE
            THEN [ dimensions |->
                     [ length |-> 10, breadth |-> 10, height |-> 10,
                       weight |-> OrElse(ParseFloat(primaryVariant.weight), 50) ] ]
            ELSE <<>>
        imgs ==
            IF hasVariants /\ primaryVariant.image # NONE
            THEN [images |-> <<primaryVariant.image>>]
            ELSE IF body.image # NONE THEN [images |-> <<body.image>>]
            ELSE <<>>
        handle == IF body.title # <<>> THEN [handle |-> Slug(body.title)] ELSE <<>>
    IN base @@ fromVariants @@ dims @@ imgs @@ handle

\* POST /api/shiprocket-webhooks/product, behind verifyHMAC
ProductWebhook(hdr, body) ==
    /\ IF verifyHMAC(hdr, body) # "next"
       THEN /\ products' = products
            /\ resp' = Response("POST /shiprocket-webhooks/product", 401,
                                verifyHMAC(hdr, body))
       ELSE IF \/ body.id = NONE
               \/ /\ "handle" \in DOMAIN ProductUpdate(body)
                  /\ HandleTaken(products, body.id, ProductUpdate(body).handle)
       THEN /\ products' = products
            /\ resp' = Response("POST /shiprocket-webhooks/product", 500,
                                "Failed to process product webhook")
       ELSE /\ products' = Upsert(products, body.id, ProductUpdate(body))
            /\ resp' = Response("POST /shiprocket-webhooks/product", 200, NONE)
    /\ req' = [op |-> "POST /shiprocket-webhooks/product", hdr |-> hdr, body |-> body]
    /\ UNCHANGED <<env, authToken, tokenExpiry, collections, orders, now, pending>>

\* updateData of the collection webhook.
CollectionUpdate(body) ==
    [ name |-> body.title, description |-> IF body.body_html = NONE THEN "" ELSE body.body_html,
      id |-> body.id,
      updatedAt |-> body.updated_at ]
    @@ (IF body.image # NONE THEN [image |-> body.image] ELSE <<>>)
    @@ (IF body.title # <<>> THEN [handle |-> Slug(body.title)] ELSE <<>>)

\* POST /api/shiprocket-webhooks/collection, behind verifyHMAC
CollectionWebhook(hdr, body) ==
    /\ IF verifyHMAC(hdr, body) # "next"
       THEN /\ collections' = collections
            /\ resp' = Response("POST /shiprocket-webhooks/collection", 401,
                                verifyHMAC(hdr, body))
       ELSE IF \/ body.id = NONE
               \/ /\ "handle" \in DOMAIN CollectionUpdate(body)
                  /\ HandleTaken(collections, body.id, CollectionUpdate(body).handle)
       THEN /\ collections' = collections
            /\ resp' = Response("POST /shiprocket-webhooks/collection", 500,
                                "Failed to process collection webhook")
       ELSE /\ collections' = Upsert(collections, body.id, CollectionUpdate(body))
            /\ resp' = Response("POST /shiprocket-webhooks/collection", 200, NONE)
    /\ req' = [op |-> "POST /shiprocket-webhooks/collection", hdr |-> hdr,
               body |-> body]
    /\ UNCHANGED <<env, authToken, tokenExpiry, products, orders, now, pending>>

\* ------------------------------------------ checkout session creation
\* The text of `Product ${item.productId} not found`.
NotFoundText(productId) ==
    CASE productId = "prod_missing" -> "Product prod_missing not found"
      [] OTHER -> "Product not found"

\* The text of `Product ${product.name} is not available`.
UnavailableText(name) ==
    CASE name = <<"Watermelon">> -> "Product Watermelon is not available"
      [] OTHER -> "Product is not available"

\* product.price and product.availableForSale of a stored document; a
\* document without the field yields undefined (NaN in arithmetic, falsy).
PriceOf(product) == IF "price" \in DOMAIN product THEN product.price ELSE NaN

IsAvailable(product) ==
    "availableForSale" \in DOMAIN product /\ product.availableForSale

\* A validation loop that looks the products up and lets unavailable ones
\* through.
FirstRejectedAbsentOnly(items) ==
    LET rejected == { i \in 1..Len(items) : items[i].productId \notin DOMAIN products }
    IN IF rejected = {} THEN 0
       ELSE CHOOSE i \in rejected : \A j \in rejected : i <= j

\* The index of the first item the validation loop stops at, 0 if none.
FirstRejected(items) ==
    LET rejected == { i \in 1..Len(items) :
                        \/ items[i].productId \notin DOMAIN products
                        \/ ~IsAvailable(products[items[i].productId]) }
    IN IF rejected = {} THEN 0
       ELSE CHOOSE i \in rejected : \A j \in rejected : i <= j

\* What the loop answers when it stops at item i.
RejectItem(op, item) ==
    IF item.productId \notin DOMAIN products
    THEN Response(op, 404, NotFoundText(item.productId))
    ELSE Response(op, 400, UnavailableText(products[item.productId].name))

\* A total accumulated from what each item says its price is.
AccumulateClientPrices(items, i, acc) ==
    LET Sum[k \in 0..Len(items)] ==
            IF k = 0 THEN 0 ELSE Sum[k - 1] + items[k].price * items[k].quantity
    IN acc + Sum[Len(items)]

RECURSIVE Accumulate(_, _, _)
\* totalAmount += product.price * item.quantity, item by item
Accumulate(items, i, acc) ==
    IF i > Len(items) THEN acc
    ELSE IF acc = NaN \/ PriceOf(products[items[i].productId]) = NaN THEN NaN
    ELSE Accumulate(items, i + 1,
                    acc + PriceOf(products[items[i].productId]) * items[i].quantity)

\* Math.round(amount * 100): rupees to paise.
ToPaise(amount) == amount * 100

\* A request to a collaborator that has been issued and not yet answered,
\* with the handler's locals that outlive the await.
SessionCall(route, orderId, total, sent, body) ==
    [ customer |-> body.customer, items |-> body.items, orderId |-> orderId, route |-> route,
      total |-> total, sent |-> sent ]

\* The orders stored or about to be: the model stops opening sessions at
\* MaxOrders of them.
Started == Cardinality(DOMAIN orders) + Cardinality({c \in pending : c.route = "razorpay"})

\* POST /api/faster-checkout/create up to the await of createFasterCheckout:
\* validation, order.save(), and the session request on its way.
FasterCreateStart(body) ==
    LET op == "POST /faster-checkout/create"
        orderId == <<"BREWY", now>>
        totalAmount == Accumulate(body.items, 1, 0)
        data == [ razorpayOrderId |-> orderId, amount |-> totalAmount,
                  status |-> "created", customer |-> body.customer,
                  items |-> body.items ]
    IN /\ Started < MaxOrders
       /\ Cardinality(pending) < MaxInflight
       /\ IF body.customer = NONE \/ body.pickupPincode = NONE
          THEN /\ resp' = Response(op, 400, "Missing required fields")
               /\ UNCHANGED <<orders, pending>>
          ELSE IF FirstRejected(body.items) # 0
          THEN /\ resp' = RejectItem(op, body.items[FirstRejected(body.items)])
               /\ UNCHANGED <<orders, pending>>
          ELSE IF ~CanInsert(orderId, data)
          THEN /\ resp' = Response(op, 500, "Failed to create checkout session")
               /\ UNCHANGED <<orders, pending>>
          ELSE /\ orders' = Insert(orderId, data)
               /\ pending' = pending \cup
                     {SessionCall("faster", orderId, totalAmount, totalAmount, body)}
               /\ resp' = Awaiting(op)
       /\ req' = [op |-> op, outcome |-> NONE, body |-> body]
       /\ UNCHANGED <<env, authToken, tokenExpiry, products, collections, now>>

\* The order store after a failed session call that would undo the save.
RolledBack(orderId) == [o \in DOMAIN orders \ {orderId} |-> orders[o]]

\* The order store after createFasterCheckout reported a failure: the
\* handler returns without touching the order.
AfterSessionFailure(orderId) == orders

\* POST /api/faster-checkout/create from the answer of createFasterCheckout.
FasterCreateFinish(call, outcome, checkoutId) ==
    LET op == "POST /faster-checkout/create" IN
    /\ call \in pending
    /\ call.route = "faster"
    /\ IF outcome # "ok"
       THEN /\ orders' = AfterSessionFailure(call.orderId)
            /\ resp' = Reply(op, 500,
                             CollabError(outcome,
                                         "Failed to create Faster Checkout session"),
                             <<Call("faster/checkout/create", NoData)>>)
       ELSE /\ orders' = [orders EXCEPT ![call.orderId].razorpayOrderId =
                             IF checkoutId = NoId THEN call.orderId ELSE checkoutId]
            /\ resp' = Reply(op, 200, NONE, <<Call("faster/checkout/create", NoData)>>)
    /\ pending' = pending \ {call}
    /\ req' = [op |-> op, outcome |-> outcome]
    /\ UseService("faster", outcome, resp'.calls # <<>>)
    /\ UNCHANGED <<env, products, collections, now>>

\* POST /api/payment/create-order up to the await of createRazorpayOrder:
\* validation, and the order request on its way. Nothing is saved yet.
RzpCreateStart(body) ==
    LET op == "POST /payment/create-order"
        orderId == <<"ORD", now>>
        calculatedTotal == Accumulate(body.items, 1, 0)
    IN /\ Started < MaxOrders
       /\ Cardinality(pending) < MaxInflight
       /\ IF body.amount = 0 \/ body.amount = NaN \/ body.customer = NONE
          THEN /\ resp' = Response(op, 400, "Missing required fields")
               /\ pending' = pending
          ELSE IF FirstRejected(body.items) # 0
          THEN /\ resp' = RejectItem(op, body.items[FirstRejected(body.items)])
               /\ pending' = pending
          ELSE /\ pending' = pending \cup
                     {SessionCall("razorpay", orderId, calculatedTotal,
                                  ToPaise(calculatedTotal), body)}
               /\ resp' = Awaiting(op)
       /\ req' = [op |-> op, outcome |-> NONE, body |-> body]
       /\ UNCHANGED <<env, authToken, tokenExpiry, products, collections, orders, now>>

\* POST /api/payment/create-order from the answer of createRazorpayOrder.
RzpCreateFinish(call, outcome) ==
    LET op == "POST /payment/create-order"
        data == [ razorpayOrderId |-> <<"rzp", 0>>, amount |-> call.total,
                  status |-> "created", customer |-> call.customer,
                  items |-> call.items ]
    IN /\ call \in pending
       /\ call.route = "razorpay"
       /\ IF outcome # "ok"
          THEN /\ orders' = orders
               /\ resp' = Reply(op, 500, "Failed to create Razorpay order",
                                <<Call("orders.create", NoData)>>)
          ELSE IF ~CanInsert(call.orderId, data)
          THEN /\ orders' = orders
               /\ resp' = Reply(op, 500, "Failed to create order",
                                <<Call("orders.create", NoData)>>)
          ELSE /\ orders' = Insert(call.orderId, data)
               /\ resp' = Reply(op, 200, NONE, <<Call("orders.create", NoData)>>)
       /\ pending' = pending \ {call}
       /\ req' = [op |-> op, outcome |-> outcome]
       /\ UNCHANGED <<env, authToken, tokenExpiry, products, collections, now>>

\* Date.now() moves on, over as many instants as there can be orders.
Tick ==
    /\ now < MaxOrders - 1
    /\ now' = now + 1
    /\ UNCHANGED <<env, authToken, tokenExpiry, products, collections, orders, pending, req, resp>>

\* ------------------------------------------------- the order ledger
\* The requests of the ledger specification.
LedgerOrderIds == {<<"ORD", 0>>, <<"BREWY", 0>>}

LedgerCart == <<[productId |-> "prod_grape", quantity |-> 2, price |-> 49]>>

LedgerBodies ==
    [ razorpayOrderId : {<<"rzp", 0>>}, amount : {98}, status : {NONE, "paid", "refunded"},
      customer : {"cust_a"}, items : {LedgerCart},
      orderId : LedgerOrderIds ]

\* Signatures a client can send: the payment collaborator's for the order
\* reference and payment reference, and one made without the secret.
PaidSignature == Hmac("rzp_secret", <<(<<"rzp", 0>>), "pay_1">>)
ForgedSignature == Hmac("forged", <<(<<"rzp", 0>>), "pay_1">>)

VerifyResults ==
    [ order_id : {<<"BREWY", 0>>}, payment_status : {"paid", "pending"},
      shipment_id : {<<"shp", 0>>}, tracking_url : {"track_url"} ]

\* A request without the webhook authentication headers.
NoHeaders == [signature |-> NoSig, apiKey |-> NONE]

WebhookBodies ==
    [ order_id : LedgerOrderIds,
      payment_status : {NONE, "paid", "cancelled"},
      tracking_url : {NONE},
      shipment_status : {NONE, "delivered"} ]

Init ==
    /\ env = ConfiguredEnv
    /\ products = SeedProducts
    /\ collections = SeedCollections
    /\ orders = <<>>
    /\ now = 0
    /\ pending = {}
    /\ req = [op |-> "boot"]
    /\ resp = NoResponse
    /\ authToken = [service \in Services |-> NoToken]
    /\ tokenExpiry = [service \in Services |-> 0]

\* Headers that authenticate as admin, and headers that do not.
AdminOk == [password |-> "admin_pw", token |-> <<>>]
AdminJwt == [password |-> NONE, token |-> JwtSign("admin", "jwt_secret")]
AdminBad == [password |-> "wrong_pw", token |-> JwtSign("admin", "forged")]
AdminNone == [password |-> NONE, token |-> <<>>]

Next ==
    \/ \E body \in LedgerBodies : PostOrder(body)
    \/ \E o \in LedgerOrderIds, st \in Statuses : PatchStatus(AdminOk, o, st)
    \/ \E hdr \in {AdminJwt, AdminBad, AdminNone} :
          PatchStatus(hdr, <<"ORD", 0>>, "paid")
    \/ \E o \in {<<"ORD", 0>>}, st \in {NONE, "created"} :
          PatchPayment(o, "pay_1", PaidSignature, st)
    \/ \E o \in {<<"ORD", 0>>} :
          PatchShipment(AdminOk, o, SrOrderId(o), SrShipmentId(o), "track_url")
    \/ PatchShipment(AdminBad, <<"ORD", 0>>, SrOrderId(<<"ORD", 0>>),
                     SrShipmentId(<<"ORD", 0>>), "track_url")
    \/ \E sg \in {PaidSignature, ForgedSignature}, o \in LedgerOrderIds \cup {NoId} :
          VerifyPayment(<<"rzp", 0>>, "pay_1", sg, o)
    \/ \E o \in {<<"ORD", 0>>} :
          \/ VerifyPayment(NoId, "pay_1", PaidSignature, o)
          \/ VerifyPayment(<<"rzp", 0>>, NONE, PaidSignature, o)
          \/ VerifyPayment(<<"rzp", 0>>, "pay_1", NoSig, o)
    \/ \E o \in {<<"ORD", 0>>, NoId}, outcome \in Outcomes :
          ShipmentCreate(AdminOk, o, outcome)
    \/ \E hdr \in {AdminJwt, AdminBad} : ShipmentCreate(hdr, <<"ORD", 0>>, "ok")
    \/ \E o \in {<<"ORD", 0>>, NoId} : ShipmentCancel(AdminOk, o, "ok")
    \/ ShipmentCancel(AdminBad, <<"ORD", 0>>, "ok")
    \/ \E outcome \in {"fail_msg", "fail_nomsg"} :
          ShipmentCancel(AdminOk, <<"ORD", 0>>, outcome)
    \/ \E o \in LedgerOrderIds \cup {NoId}, result \in VerifyResults :
          FasterVerify(<<"chk", 0>>, o, "ok", result)
    \/ \E c \in {<<"chk", 0>>, NoId}, outcome \in {"fail_msg", "fail_nomsg"} :
          FasterVerify(c, NoId, outcome, CHOOSE r \in VerifyResults : TRUE)
    \/ \E o \in {<<"BREWY", 0>>, NoId} : FasterCancel(AdminOk, o, "ok")
    \/ FasterCancel(AdminBad, <<"BREWY", 0>>, "ok")
    \/ \E outcome \in {"fail_msg", "fail_nomsg"} :
          FasterCancel(AdminOk, <<"BREWY", 0>>, outcome)
    \/ \E body \in {b \in WebhookBodies : b.order_id = <<"BREWY", 0>>} :
          FasterWebhook(NoHeaders, body)
    \/ \E o \in {NoId, <<"CLI", 0>>} :
          FasterWebhook(NoHeaders,
                        [order_id |-> o, payment_status |-> "paid",
                         tracking_url |-> NONE, shipment_status |-> NONE])

Spec == Init /\ [][Next]_vars

\* ------------------------------------------------- the webhook paths
\* The requests a sender can put together: a payload, and headers signed
\* or not signed for it.
Variant(price, weight, image) ==
    [ quantity |-> 5, price |-> price, weight |-> weight, id |-> "var_1",
      title |-> "Single Can", sku |-> NONE, image |-> image ]

ProductPayload(id, title, status, variants, image) ==
    [ status |-> status, variants |-> variants, id |-> id, title |-> title,
      image |-> image, product_type |-> NONE, body_html |-> NONE, updated_at |-> 1 ]

PlainProductPayloads ==
    { ProductPayload(id, title, status, <<>>, NONE) :
        id \in {"prod_grape", "prod_new"},
        title \in { <<"Grape", " ", "Brewy">>, <<"Grape", " ", "\t", "Brewy">>,
                    <<"Watermelon">> },
        status \in {"active", "draft"} }

VariantProductPayloads ==
    { ProductPayload(id, <<"Grape", " ", "Brewy">>, "active", variants, image) :
        id \in {"prod_grape", "prod_new"},
        variants \in { <<Variant("59", NONE, NONE)>>,
                       <<Variant("free", "0.35", "/img/variant.png"),
                         Variant("49", "heavy", NONE)>> },
        image \in {NONE, "/img/product.png"} }

CollectionPayloads ==
    { [ id |-> id, title |-> title, image |-> image, body_html |-> NONE,
        updated_at |-> 1 ] :
        id \in {"coll_berry", "coll_new"},
        title \in { <<"Berry", " ", "Collection">> },
        image \in {NONE, "/img/collection.png"} }

\* Headers as the partner sends them for this body.
SignedHeaders(body) ==
    [signature |-> Hmac("sr_secret", Stringify(body)), apiKey |-> "sr_key"]

\* Headers that are incomplete, carry another key, or carry a signature
\* made with another secret, for another body (a tampered request) or over
\* another serialisation of this body.
UnsignedHeaders(body) ==
    { NoHeaders,
      [signature |-> NoSig, apiKey |-> "sr_key"],
      [signature |-> Hmac("sr_secret", Stringify(body)), apiKey |-> NONE],
      [signature |-> Hmac("sr_secret", Stringify(body)), apiKey |-> "other_key"],
      [signature |-> Hmac("forged", Stringify(body)), apiKey |-> "sr_key"],
      [signature |-> Hmac("sr_secret", Stringify([body EXCEPT !.updated_at = 0])),
       apiKey |-> "sr_key"],
      [signature |-> Hmac("sr_secret", PrettyText(body)), apiKey |-> "sr_key"] }

OrderWebhookBodies ==
    [ order_id : {<<"ORD", 0>>}, payment_status : {"paid"},
      tracking_url : {NONE}, shipment_status : {NONE, "delivered"} ]

NextWebhook ==
    \/ \E body \in PlainProductPayloads \cup VariantProductPayloads :
          ProductWebhook(SignedHeaders(body), body)
    \/ \E body \in { ProductPayload("prod_new", <<"Grape", " ", "Brewy">>,
                                    "active", <<>>, NONE),
                     ProductPayload("prod_grape", <<"Watermelon">>,
                                    "draft", <<>>, NONE) } :
          \E hdr \in UnsignedHeaders(body) : ProductWebhook(hdr, body)
    \/ ProductWebhook(SignedHeaders(ProductPayload(NONE, <<"Berry">>, "active",
                                                   <<>>, NONE)),
                      ProductPayload(NONE, <<"Berry">>, "active", <<>>, NONE))
    \/ \E body \in CollectionPayloads : CollectionWebhook(SignedHeaders(body), body)
    \/ \E body \in {b \in CollectionPayloads : b.id = "coll_new" /\ b.image = NONE} :
          \E hdr \in UnsignedHeaders(body) : CollectionWebhook(hdr, body)
    \/ \E body \in LedgerBodies :
          body.status = NONE /\ PostOrder([body EXCEPT !.orderId = <<"ORD", 0>>])
    \/ \E body \in OrderWebhookBodies :
          \E hdr \in {NoHeaders, SignedHeaders(body)} : FasterWebhook(hdr, body)

SpecWebhook == Init /\ [][NextWebhook]_vars

\* ------------------------------------------------ the checkout paths
\* Line items as a client submits them: the price field is the client's
\* (the server's, another, or absent).
Item(productId, quantity, price) ==
    [ productId |-> productId, quantity |-> quantity, price |-> price,
      name |-> "item", variantId |-> NONE ]

Carts ==
    { <<Item("prod_grape", MaxQty, 1)>>,
      <<Item("prod_grape", 1, 49), Item("prod_lemon_lime", MaxQty, 1)>>,
      <<Item("prod_grape", 1, NaN)>>,
      <<Item("prod_grape", 1, 49), Item("prod_watermelon", 1, 49)>>,
      <<Item("prod_missing", 1, 49), Item("prod_watermelon", 1, 49)>> }

FasterCreateBodies ==
    [ customer : {"cust_a"}, items : Carts, pickupPincode : {"400001"} ]
    \cup { b \in [ customer : {"cust_a", NONE}, items : {<<Item("prod_grape", 1, 49)>>},
                    pickupPincode : {"400001", NONE} ] :
               b.customer = NONE \/ b.pickupPincode = NONE }

RzpCreateBodies ==
    [ amount : {1}, customer : {"cust_a"}, items : Carts ]
    \cup [ amount : {49, 0, NaN}, customer : {"cust_a", NONE},
           items : {<<Item("prod_grape", 1, 49)>>} ]

\* POST /api/orders with a total and prices of the client's choosing.
DirectOrderBodies ==
    [ razorpayOrderId : {<<"rzp", 0>>},
      amount : {1}, status : {NONE}, customer : {"cust_a"},
      items : {<<Item("prod_grape", MaxQty, 49)>>}, orderId : {<<"CLI", 0>>} ]

\* The partner reprices the grape product.
RepricePayload ==
    ProductPayload("prod_grape", <<"Grape", " ", "Brewy">>, "active",
                   <<Variant("59", NONE, NONE)>>, NONE)

NextCheckout ==
    \/ Tick
    \/ \E body \in FasterCreateBodies : FasterCreateStart(body)
    \/ \E call \in pending : \E outcome \in Outcomes :
          \E checkoutId \in {NoId, <<"chk", 0>>} :
             /\ (outcome # "ok" => checkoutId = NoId)
             /\ FasterCreateFinish(call, outcome, checkoutId)
    \/ \E body \in RzpCreateBodies : RzpCreateStart(body)
    \/ \E call \in pending : \E outcome \in Outcomes : RzpCreateFinish(call, outcome)
    \/ \E body \in DirectOrderBodies : PostOrder(body)
    \/ ProductWebhook(SignedHeaders(RepricePayload), RepricePayload)

SpecCheckout == Init /\ [][NextCheckout]_vars

\* ------------------------------------------------ the shipment path
\* Orders to ship: carts over products with stored dimensions (the seeded
\* 6 x 6 x 12, 0.35 kg), with the webhook's 10 x 10 x 10, with none, and
\* over a product that is not in the catalog.
ShipmentCarts ==
    { <<Item("prod_grape", MaxQty, 49)>>,
      <<Item("prod_grape", 2, 49), Item("prod_new", 1, 49)>>,
      <<Item("prod_new", MaxQty, 49)>>,
      <<Item("prod_missing", 1, 49), Item("prod_lemon_lime", 1, 30)>> }

ShipmentOrderBodies ==
    [ razorpayOrderId : {<<"rzp", 0>>}, amount : {98}, status : {NONE, "paid"},
      customer : {"cust_a"}, items : ShipmentCarts, orderId : LedgerOrderIds ]

\* The partner creates prod_new without variants (no dimensions are stored)
\* or with a variant whose weight is no number (10 x 10 x 10, 0.5 kg).
NewProductPayloads ==
    { ProductPayload("prod_new", <<"Berry">>, "active", <<>>, NONE),
      ProductPayload("prod_new", <<"Berry">>, "active",
                     <<Variant("49", "heavy", NONE)>>, NONE) }

NextShipment ==
    \/ \E body \in NewProductPayloads : ProductWebhook(SignedHeaders(body), body)
    \/ \E body \in ShipmentOrderBodies : PostOrder(body)
    \/ \E o \in LedgerOrderIds : VerifyPayment(<<"rzp", 0>>, "pay_1", PaidSignature, o)
    \/ \E o \in LedgerOrderIds, outcome \in Outcomes : ShipmentCreate(AdminOk, o, outcome)

SpecShipment == Init /\ [][NextShipment]_vars

\* ---------------------------------------------------- the order's life
\* From the session to the shipment, within one instant of the clock: the
\* two session routes, the payment confirmation and the shipment creation.
LifeCarts ==
    { <<Item("prod_grape", 2, 49)>>,
      <<Item("prod_grape", 1, 1), Item("prod_lemon_lime", MaxQty, 30)>> }

NextLife ==
    \/ \E items \in LifeCarts :
          FasterCreateStart([customer |-> "cust_a", items |-> items,
                             pickupPincode |-> "400001"])
    \/ \E call \in pending : \E outcome \in {"ok", "fail_msg"} :
          FasterCreateFinish(call, outcome, NoId)
    \/ \E items \in LifeCarts :
          RzpCreateStart([amount |-> 1, customer |-> "cust_a", items |-> items])
    \/ \E call \in pending : \E outcome \in {"ok", "fail_nomsg"} :
          RzpCreateFinish(call, outcome)
    \/ \E sg \in {PaidSignature, ForgedSignature}, o \in LedgerOrderIds :
          VerifyPayment(<<"rzp", 0>>, "pay_1", sg, o)
    \/ \E o \in LedgerOrderIds, outcome \in {"ok", "fail_msg"} :
          ShipmentCreate(AdminOk, o, outcome)

SpecLife == Init /\ [][NextLife]_vars

\* ------------------------------------------------------ error responses
\* An Error value: err.status, err.message and err.stack.
ErrorValue(status, message) ==
    [message |-> message, status |-> status, stack |-> "stack_trace"]

\* A response of the hosted-checkout route or of the application's error
\* handler: besides the status and the error string it has the controller's
\* message and issue list, and the stack trace where one is attached.
ErrorReply(op, code, message, error, errors, stack) ==
    [op |-> op, code |-> code, error |-> error, calls |-> <<>>,
     message |-> message, stack |-> stack, errors |-> errors]

\* One issue of a failed schema parse; path.join('.') is kept as the path.
Issue(path, message) == [message |-> message, field |-> path]

\* The issues of the items of checkoutSchema, in item order.
RECURSIVE ItemIssues(_, _)
ItemIssues(items, i) ==
    IF i > Len(items) THEN <<>>
    ELSE (IF items[i].variant_id = ""
          THEN <<Issue(<<"items", ToString(i - 1), "variant_id">>,
                       "variant_id is required")>>
          ELSE <<>>)
         \o (IF items[i].quantity < 1
             THEN <<Issue(<<"items", ToString(i - 1), "quantity">>,
                          "Quantity must be at least 1")>>
             ELSE <<>>)
         \o ItemIssues(items, i + 1)

\* checkoutSchema.safeParse(req.body).error.issues for a well-typed body.
checkoutSchema(body) ==
    (IF Len(body.items) < 1
     THEN <<Issue(<<"items">>, "At least one item is required")>>
     ELSE ItemIssues(body.items, 1))
    \o (IF body.redirect_url = ""
        THEN <<Issue(<<"redirect_url">>, "redirect_url is required")>>
        ELSE <<>>)

\* How ShiprocketCheckoutService.checkout(items, redirect_url) can end: the
\* promise resolves, the promise rejects with an Error, or the call itself
\* throws because the service object has no such method.
CheckoutServiceOutcomes == {"ok", "fail_msg", "absent"}

\* The application's error handler: the trace is attached in development.
HandleError(op, err) ==
    /\ resp' = ErrorReply(op, OrElse(err.status, 500), NONE,
                          IF err.message = NONE THEN "Internal server error"
                          ELSE err.message,
                          <<>>,
                          IF env.NODE_ENV = "development" THEN err.stack
                          ELSE NONE)
    /\ UNCHANGED <<env, authToken, tokenExpiry, products, collections, orders, now, pending>>

\* POST /api/checkout: CheckoutController.checkout.
checkout(body, outcome) ==
    LET issues == checkoutSchema(body) IN
    /\ req' = [op |-> "POST /checkout", body |-> body]
    /\ IF issues # <<>>
       THEN /\ resp' = ErrorReply("POST /checkout", 400, "Invalid request", NONE,
                                  issues, NONE)
            /\ UNCHANGED <<env, authToken, tokenExpiry, products, collections,
                           orders, now, pending>>
       ELSE IF outcome = "absent"
       THEN HandleError("POST /checkout",
                        ErrorValue(NaN, "checkout is not a function"))
       ELSE IF outcome = "ok"
       THEN /\ resp' = ErrorReply("POST /checkout", 200, NONE, NONE, <<>>, NONE)
            /\ UNCHANGED <<env, authToken, tokenExpiry, products, collections,
                           orders, now, pending>>
       ELSE /\ resp' = ErrorReply("POST /checkout", 500, "Internal server error",
                                  outcome, <<>>,
                                  ErrorValue(NaN, outcome).stack)
            /\ UNCHANGED <<env, authToken, tokenExpiry, products, collections,
                           orders, now, pending>>

\* A request whose JSON body does not parse: express.json() passes a
\* SyntaxError with status 400 to the error handler.
MalformedBody(op) ==
    /\ req' = [op |-> op, body |-> "malformed"]
    /\ HandleError(op, ErrorValue(400, "Unexpected token"))

\* --------------------------------------- specification: error responses
\* The deployment runs with NODE_ENV production or development.
InitErrors ==
    /\ env \in { [ConfiguredEnv EXCEPT !.NODE_ENV = mode] :
                     mode \in {"production", "development"} }
    /\ products = SeedProducts
    /\ collections = SeedCollections
    /\ orders = <<>>
    /\ now = 0
    /\ pending = {}
    /\ req = [op |-> "boot"]
    /\ resp = NoResponse
    /\ authToken = [service \in Services |-> NoToken]
    /\ tokenExpiry = [service \in Services |-> 0]

CheckoutItems ==
    [quantity : 0 .. MaxQty, variant_id : {"prod_grape", ""}]

CheckoutBodies ==
    [items : {<<>>} \cup {<<i>> : i \in CheckoutItems}
                    \cup {<<i, j>> : i, j \in CheckoutItems},
     redirect_url : {"https://shop/success", ""}]

NextErrors ==
    \/ \E body \in CheckoutBodies, outcome \in CheckoutServiceOutcomes :
           checkout(body, outcome)
    \/ \E op \in {"POST /checkout", "POST /orders", "POST /shipment/create"} :
           MalformedBody(op)

SpecErrors == InitErrors /\ [][NextErrors]_vars

\* --------------------------------- specification: signature verification
\* generateHMAC of the checkout service: the base64 digest of the same HMAC,
\* a different string from the hex digest.
generateHMAC(payload, secret) == <<"hmac-base64", secret, payload>>

\* verifyWebhookHMAC(payload, signature, secret) of the checkout service.
verifyWebhookHMAC(payload, signature, secret) ==
    Hmac(secret, payload) = signature

\* A call of verifyWebhookHMAC and what it returned.
VerifyWebhookCall(payload, signature, secret) ==
    /\ req' = [op |-> "verifyWebhookHMAC", secret |-> secret,
               signature |-> signature, payload |-> payload]
    /\ resp' = [op |-> "verifyWebhookHMAC", code |-> 0, error |-> NONE,
                calls |-> <<>>,
                result |-> verifyWebhookHMAC(payload, signature, secret)]
    /\ UNCHANGED <<env, authToken, tokenExpiry, products, collections, orders, now, pending>>

VerifyProductPayloads ==
    { ProductPayload(id, <<"Grape", " ", "Brewy">>, status, <<>>, NONE) :
        id \in {"prod_new"}, status \in {"active", "draft"} }

VerifyCollectionPayloads ==
    { b \in CollectionPayloads : b.image = NONE }

Secrets == {"sr_secret", "forged"}

\* The texts a sender may have signed: the canonical text of a body or
\* another serialisation of it.
SignedTexts(bodies) ==
    {Stringify(b) : b \in bodies} \cup {PrettyText(b) : b \in bodies}

\* Every signature and header pair a sender can put together from the keys,
\* the secrets, the two digest encodings and the texts of these bodies.
Signatures(bodies) ==
    {Hmac(s, t) : s \in Secrets, t \in SignedTexts(bodies)}
    \cup {generateHMAC(t, s) : s \in Secrets, t \in SignedTexts(bodies)}

HeaderPairs(bodies) ==
    [ signature : {NoSig} \cup Signatures(bodies),
      apiKey : {"sr_key", "other_key", NONE} ]

NextVerify ==
    \/ \E body \in VerifyProductPayloads :
          \E hdr \in HeaderPairs(VerifyProductPayloads) : ProductWebhook(hdr, body)
    \/ \E body \in VerifyCollectionPayloads :
          \E hdr \in HeaderPairs(VerifyCollectionPayloads) : CollectionWebhook(hdr, body)
    \/ \E payload \in SignedTexts(VerifyCollectionPayloads), secret \in Secrets :
          \E signature \in Signatures(VerifyCollectionPayloads) :
             VerifyWebhookCall(payload, signature, secret)

SpecVerify == Init /\ [][NextVerify]_vars

\* ------------------------------------ the service functions, step by step
\* How many service calls the model keeps in flight at once.
MaxCalls == 2

\* Functions of the two service modules: the endpoint each one requests
\* and the error it reports when the failure carries no message.
ServiceFns ==
    { [fallback |-> "Failed to create Shiprocket order", service |-> "shiprocket",
       fn |-> "orders/create/adhoc"],
      [fallback |-> "Failed to verify Faster Checkout", service |-> "faster",
       fn |-> "faster/checkout/get"] }

\* A call of a service function that has not returned: what it awaits (pc)
\* and the requests it has issued so far.
ServiceCall(id, f, pc, calls) ==
    [fallback |-> f.fallback, calls |-> calls, service |-> f.service, id |-> id,
     fn |-> f.fn, pc |-> pc]

\* What a service function returns: { success, error } and, here, the
\* requests the function issued.
Envelope(call, success, error) ==
    [op |-> call.fn, error |-> error, calls |-> call.calls, success |-> success]

FreeIds == (1..MaxCalls) \ {c.id : c \in pending}

\* A service function is called: it awaits getShiprocketToken, which
\* returns the cached token when that is valid and otherwise posts
\* auth/login; with a token the function issues its one request.
ServiceStart(f) ==
    /\ FreeIds # {}
    /\ LET id == CHOOSE i \in FreeIds : \A j \in FreeIds : i <= j
       IN pending' = pending \cup
              {IF CachedValid(f.service)
               THEN ServiceCall(id, f, "call", <<Call(f.fn, NoData)>>)
               ELSE ServiceCall(id, f, "login", <<Call("auth/login", NoData)>>)}
    /\ UNCHANGED <<env, authToken, tokenExpiry, products, collections, orders, now, req, resp>>

LoginDoneFirstWins(call, ok) ==
    /\ call \in pending
    /\ call.pc = "login"
    /\ IF ok
       THEN /\ authToken' = IF CachedValid(call.service) THEN authToken
                            ELSE [authToken EXCEPT ![call.service] = Token(call.id)]
            /\ tokenExpiry' = IF CachedValid(call.service) THEN tokenExpiry
                              ELSE [tokenExpiry EXCEPT ![call.service] = now + TokenTtl]
            /\ pending' = (pending \ {call}) \cup
                   {[call EXCEPT !.pc = "call",
                                 !.calls = Append(@, Call(call.fn, NoData))]}
            /\ UNCHANGED resp
       ELSE /\ pending' = pending \ {call}
            /\ resp' = Envelope(call, FALSE, call.fallback)
            /\ UNCHANGED <<authToken, tokenExpiry>>
    /\ UNCHANGED <<env, products, collections, orders, now, req>>

\* auth/login answered. On success the module's token and expiry are
\* assigned and the function issues its request with the token; on failure
\* getShiprocketToken throws and the function's catch returns the envelope
\* with the fallback error.
LoginDone(call, ok) ==
    /\ call \in pending
    /\ call.pc = "login"
    /\ IF ok
       THEN /\ authToken' = [authToken EXCEPT ![call.service] = Token(call.id)]
            /\ tokenExpiry' = [tokenExpiry EXCEPT ![call.service] = now + TokenTtl]
            /\ pending' = (pending \ {call}) \cup
                   {[call EXCEPT !.pc = "call",
                                 !.calls = Append(@, Call(call.fn, NoData))]}
            /\ UNCHANGED resp
       ELSE /\ pending' = pending \ {call}
            /\ resp' = Envelope(call, FALSE, call.fallback)
            /\ UNCHANGED <<authToken, tokenExpiry>>
    /\ UNCHANGED <<env, products, collections, orders, now, req>>

CallDoneRetrying(call, outcome) ==
    /\ call \in pending
    /\ call.pc = "call"
    /\ IF outcome # "ok" /\ Len(call.calls) < 3
       THEN /\ pending' = (pending \ {call}) \cup
                   {[call EXCEPT !.calls = Append(@, call.calls[Len(call.calls)])]}
            /\ UNCHANGED resp
       ELSE /\ pending' = pending \ {call}
            /\ resp' = Envelope(call, outcome = "ok",
                                IF outcome = "ok" THEN NONE
                                ELSE CollabError(outcome, call.fallback))
    /\ UNCHANGED <<env, authToken, tokenExpiry, products, collections, orders, now, req>>

\* The function's request answered or failed: the function returns
\* { success: true } or, from its catch, { success: false, error }.
CallDone(call, outcome) ==
    /\ call \in pending
    /\ call.pc = "call"
    /\ pending' = pending \ {call}
    /\ resp' = Envelope(call, outcome = "ok",
                        IF outcome = "ok" THEN NONE
                        ELSE CollabError(outcome, call.fallback))
    /\ UNCHANGED <<env, authToken, tokenExpiry, products, collections, orders, now, req>>

\* Time passes up to the last millisecond before a cached token expires,
\* or to the expiry itself. The model lets the first token of a service
\* expire and stops the clock after that.
Elapse(service) ==
    /\ tokenExpiry[service] \in 1..TokenTtl
    /\ \E t \in {tokenExpiry[service] - 1, tokenExpiry[service]} :
          /\ now < t
          /\ now' = t
    /\ UNCHANGED <<env, authToken, tokenExpiry, products, collections, orders, pending,
                   req, resp>>

NextToken ==
    \/ \E f \in ServiceFns : ServiceStart(f)
    \/ \E call \in pending, ok \in BOOLEAN : LoginDone(call, ok)
    \/ \E call \in pending, outcome \in Outcomes : CallDone(call, outcome)
    \/ \E service \in Services : Elapse(service)

SpecToken == Init /\ [][NextToken]_vars

\* ---------------------- POST /api/shipment/create, one await at a time
\* An admitted request that has not answered: it awaits createShiprocketOrder
\* (pc "collab") or order.save() (pc "save"); package is what it sends and
\* shipmentId what the collaborator assigned to this call.
ShipmentRequest(id, orderId, pc) ==
    [orderId |-> orderId, id |-> id, pc |-> pc,
     package |-> Package(orders[orderId]), shipmentId |-> <<"shp", id>>]

\* The handler up to its await of createShiprocketOrder.
ShipmentCreateStart(hdr, orderId) ==
    /\ IF AuthenticateAdmin(hdr) # "next"
       THEN /\ pending' = pending
            /\ resp' = Response("POST /shipment/create", 401, AuthenticateAdmin(hdr))
       ELSE IF orderId = NoId
       THEN /\ pending' = pending
            /\ resp' = Response("POST /shipment/create", 400, "Order ID is required")
       ELSE IF ~Found(orderId)
       THEN /\ pending' = pending
            /\ resp' = Response("POST /shipment/create", 404, "Order not found")
       ELSE IF ~ShipmentAllowed(orders[orderId])
       THEN /\ pending' = pending
            /\ resp' = Response("POST /shipment/create", 400,
                                "Order must be paid before creating shipment")
       ELSE /\ FreeIds # {}
            /\ LET id == CHOOSE i \in FreeIds : \A j \in FreeIds : i <= j
               IN pending' = pending \cup {ShipmentRequest(id, orderId, "collab")}
            /\ resp' = Awaiting("POST /shipment/create")
    /\ req' = [op |-> "POST /shipment/create", hdr |-> hdr, orderId |-> orderId]
    /\ UNCHANGED <<env, authToken, tokenExpiry, products, collections, orders, now>>

\* createShiprocketOrder returned: on failure the handler answers 500, on
\* success it assigns the shipment fields and status 'shipped' to the
\* document it loaded and awaits order.save().
ShipmentCollabDone(call, outcome) ==
    /\ call \in pending
    /\ call.pc = "collab"
    /\ IF outcome # "ok"
       THEN /\ pending' = pending \ {call}
            /\ resp' = Reply("POST /shipment/create", 500,
                             CollabError(outcome, "Failed to create Shiprocket order"),
                             <<Call("orders/create/adhoc", call.package)>>)
       ELSE /\ pending' = (pending \ {call}) \cup {[call EXCEPT !.pc = "save"]}
            /\ resp' = resp
    /\ UseService("shiprocket", outcome, TRUE)
    /\ UNCHANGED <<env, products, collections, orders, now, req>>

\* order.save() of the loaded document: the paths the handler assigned are
\* written to the stored order, whatever the store holds by now.
ShipmentSave(call) ==
    /\ call \in pending
    /\ call.pc = "save"
    /\ orders' = [orders EXCEPT
                     ![call.orderId].shiprocketOrderId = <<"sr", call.id>>,
                     ![call.orderId].shiprocketShipmentId = call.shipmentId,
                     ![call.orderId].status = "shipped"]
    /\ pending' = pending \ {call}
    /\ resp' = Reply("POST /shipment/create", 200, NONE,
                     <<Call("orders/create/adhoc", call.package)>>)
    /\ UNCHANGED <<env, authToken, tokenExpiry, products, collections, now, req>>

RaceOrderBodies ==
    [ razorpayOrderId : {<<"rzp", 0>>}, amount : {98}, status : {NONE, "paid"},
      customer : {"cust_a"}, items : {LedgerCart}, orderId : {<<"ORD", 0>>} ]

NextRace ==
    \/ \E body \in RaceOrderBodies : PostOrder(body)
    \/ \E hdr \in {AdminOk, AdminBad}, o \in {<<"ORD", 0>>, NoId} :
          ShipmentCreateStart(hdr, o)
    \/ \E call \in pending, outcome \in Outcomes : ShipmentCollabDone(call, outcome)
    \/ \E call \in pending : ShipmentSave(call)
    \/ \E outcome \in {"ok", "fail_msg"} : ShipmentCancel(AdminOk, <<"ORD", 0>>, outcome)

SpecRace == Init /\ [][NextRace]_vars

\* ------------------------------------------ the admin gate, by configuration
\* The server started with or without ADMIN_PASSWORD and JWT_SECRET in its
\* environment.
InitAdmin ==
    /\ env \in { [ConfiguredEnv EXCEPT !.ADMIN_PASSWORD = password, !.JWT_SECRET = secret] :
                     password \in {"admin_pw", NONE}, secret \in {"jwt_secret", NONE} }
    /\ products = SeedProducts
    /\ collections = SeedCollections
    /\ orders = <<>>
    /\ now = 0
    /\ pending = {}
    /\ req = [op |-> "boot"]
    /\ resp = NoResponse
    /\ authToken = [service \in Services |-> NoToken]
    /\ tokenExpiry = [service \in Services |-> 0]

\* The headers of the requests: the static password, a token the server
\* signed, wrong ones, and none at all.
AdminHeaders == {AdminOk, AdminJwt, AdminBad, AdminNone}

NextAdmin ==
    \/ \E body \in RaceOrderBodies : PostOrder(body)
    \/ \E hdr \in AdminHeaders, st \in {"paid", "delivered"} :
          PatchStatus(hdr, <<"ORD", 0>>, st)
    \/ \E hdr \in AdminHeaders : ShipmentCreate(hdr, <<"ORD", 0>>, "ok")
    \/ \E hdr \in AdminHeaders : ShipmentCancel(hdr, <<"ORD", 0>>, "ok")

SpecAdmin == InitAdmin /\ [][NextAdmin]_vars

\* ----------------------------------- payment verification, two orders
\* Two orders of the payment flow, each with the reference the payment
\* collaborator gave it.
PayOrderBodies ==
    { [ razorpayOrderId |-> <<"rzp", n>>, amount |-> 98, status |-> NONE,
        customer |-> "cust_a", items |-> LedgerCart, orderId |-> <<"ORD", n>> ] :
      n \in 0..(MaxOrders - 1) }

\* The triples a client can send: payment pay_1 of each reference with the
\* collaborator's signature for it, or with one made without the secret.
PayTriples ==
    { [ razorpayOrderId |-> <<"rzp", n>>, razorpayPaymentId |-> "pay_1",
        razorpaySignature |-> Hmac(secret, <<(<<"rzp", n>>), "pay_1">>) ] :
      n \in 0..(MaxOrders - 1), secret \in {"rzp_secret", "forged"} }

NextPay ==
    \/ \E body \in PayOrderBodies : PostOrder(body)
    \/ \E t \in PayTriples, o \in {b.orderId : b \in PayOrderBodies} \cup {NoId} :
          VerifyPayment(t.razorpayOrderId, t.razorpayPaymentId, t.razorpaySignature, o)
    \/ \E o \in {b.orderId : b \in PayOrderBodies} :
          PatchStatus(AdminOk, o, "failed")

SpecPay == Init /\ [][NextPay]_vars

\* =============================================================== claims
\* C1: every change of an order's status is one of the five transitions of
\* the table (created->paid, created->failed, paid->shipped, paid->failed,
\* shipped->delivered); the status never leaves delivered or failed and never
\* returns to created.
C1_StatusFollowsTable ==
    [][\A o \in DOMAIN orders :
          /\ o \in DOMAIN orders'
          /\ \/ orders'[o].status = orders[o].status
             \/ <<orders[o].status, orders'[o].status>> \in TransitionTable]_vars

\* The routes that verify a payment confirmation before they write "paid".
PaymentConfirmations ==
    {"POST /payment/verify-payment", "POST /faster-checkout/verify"}

\* C3: an order becomes paid (is created paid, or is moved to paid) only by
\* a request that carried a verified payment confirmation.
C3_PaidOnlyByVerifiedPayment ==
    [][\A o \in DOMAIN orders' :
          (/\ orders'[o].status = "paid"
           /\ (o \notin DOMAIN orders \/ orders[o].status # "paid"))
          => (resp'.op \in PaymentConfirmations /\ resp'.code = 200)]_vars

\* A verify-payment request that supplies all three references.
VerifySupplied(r) ==
    /\ r.op = "POST /payment/verify-payment"
    /\ r.razorpayOrderId # NoId
    /\ r.razorpayPaymentId # NONE
    /\ r.razorpaySignature # NoSig

\* The supplied signature is not the HMAC of orderRef|paymentRef under the
\* payment secret.
SignatureMismatch(r) ==
    r.razorpaySignature #
        Hmac(env.RAZORPAY_KEY_SECRET, <<r.razorpayOrderId, r.razorpayPaymentId>>)

\* C4: a verify-payment request whose supplied signature differs from
\* HMAC-SHA256(orderRef + "|" + paymentRef) under the payment secret is
\* answered 400 "Invalid payment signature" and changes no field of any order.
C4_InvalidSignatureChangesNothing ==
    [][(VerifySupplied(req') /\ SignatureMismatch(req'))
          => (/\ resp'.code = 400
              /\ resp'.error = "Invalid payment signature"
              /\ orders' = orders)]_vars

\* C4 witness: a forged signature for an order that is in the store, in
\* status created, was refused.
C4_Witness ==
    /\ VerifySupplied(req)
    /\ SignatureMismatch(req)
    /\ req.orderId \in DOMAIN orders
    /\ orders[req.orderId].status = "created"
    /\ resp.error = "Invalid payment signature"

\* C5: createShipment (by an authenticated admin) on an order whose status is
\* not paid is answered 400 "Order must be paid before creating shipment",
\* calls no collaborator endpoint and leaves every order as it was.
C5_ShipmentRequiresPaid ==
    [][(/\ req'.op = "POST /shipment/create"
        /\ AuthenticateAdmin(req'.hdr) = "next"
        /\ req'.orderId \in DOMAIN orders
        /\ orders[req'.orderId].status # "paid")
          => (/\ resp'.code = 400
              /\ resp'.error = "Order must be paid before creating shipment"
              /\ resp'.calls = <<>>
              /\ orders' = orders)]_vars

\* C5 witness: createShipment on an order still in created was refused.
C5_Witness ==
    /\ req.op = "POST /shipment/create"
    /\ req.orderId \in DOMAIN orders
    /\ orders[req.orderId].status = "created"
    /\ resp.error = "Order must be paid before creating shipment"

\* The inbound webhook routes, and those of the catalog.
CatalogWebhooks ==
    {"POST /shiprocket-webhooks/product", "POST /shiprocket-webhooks/collection"}

InboundWebhooks == CatalogWebhooks \cup {"POST /faster-checkout/webhook"}

\* The request carried both headers, the server's API key, and the HMAC of
\* its body under the server's secret.
PassedVerifier(r) ==
    /\ r.hdr.apiKey # NONE
    /\ r.hdr.signature # NoSig
    /\ r.hdr.apiKey = env.SHIPROCKET_API_KEY
    /\ r.hdr.signature = Hmac(env.SHIPROCKET_API_SECRET, Stringify(r.body))

\* C2: every inbound webhook request that creates or modifies a Product,
\* Collection or Order record has passed the signature verifier (API key
\* and HMAC of the body).
C2_WebhookMutationsVerified ==
    [][(/\ req'.op \in InboundWebhooks
        /\ <<products', collections', orders'>> # <<products, collections, orders>>)
       => PassedVerifier(req')]_vars

\* C10: a catalog webhook request with a missing header, with an API key
\* that differs from the server's, or with a signature that does not match
\* its body is answered 401 (Unauthorized), and no Product or Collection
\* record is created or modified.
C10_UnverifiedCatalogWebhookRejected ==
    [][(req'.op \in CatalogWebhooks /\ ~PassedVerifier(req'))
       => /\ resp'.code = 401
          /\ products' = products
          /\ collections' = collections]_vars

\* A correctly keyed product webhook whose signature was made for another
\* body has been rejected, after the catalog took at least one signed one.
C10_Witness ==
    /\ req.op = "POST /shiprocket-webhooks/product"
    /\ req.hdr.apiKey = env.SHIPROCKET_API_KEY
    /\ req.hdr.signature =
          Hmac(env.SHIPROCKET_API_SECRET, Stringify([req.body EXCEPT !.updated_at = 0]))
    /\ resp.code = 401
    /\ resp.error = "Invalid HMAC signature"
    /\ products # SeedProducts

\* The sum over the items of (price the catalog holds x quantity), and the
\* sum of what the items themselves say.
ServerSum(items) ==
    LET Sum[k \in 0..Len(items)] ==
            IF k = 0 THEN 0
            ELSE Sum[k - 1] + products[items[k].productId].price * items[k].quantity
    IN Sum[Len(items)]

ClientSum(items) ==
    LET Sum[k \in 0..Len(items)] ==
            IF k = 0 THEN 0 ELSE Sum[k - 1] + items[k].price * items[k].quantity
    IN Sum[Len(items)]

\* C6: the total a session creation sends to the collaborator and stores in
\* the order is the sum over the items of (catalog price x quantity),
\* whatever amount or item price the client submitted. The payment
\* collaborator is sent this total in paise (x 100), the checkout
\* collaborator in rupees; the payment route stores, on the collaborator's
\* answer, the total it sent.
C6_SessionTotalFromServerPrices ==
    [][/\ \A c \in pending' \ pending :
            /\ c.total = ServerSum(c.items)
            /\ c.sent = IF c.route = "razorpay" THEN 100 * ServerSum(c.items)
                        ELSE ServerSum(c.items)
            /\ c.route = "faster" => orders'[c.orderId].amount = ServerSum(c.items)
       /\ \A c \in pending \ pending' :
            (c.route = "razorpay" /\ c.orderId \in DOMAIN orders' \ DOMAIN orders)
            => /\ 100 * orders'[c.orderId].amount = c.sent
               /\ orders'[c.orderId].items = c.items]_vars

\* A session request is on its way for a stored order whose client priced
\* an item differently from the catalog; its total is not the client's.
C6_Witness ==
    \E c \in pending :
        /\ c.route = "faster"
        /\ \E i \in 1..Len(c.items) :
              c.items[i].price # products[c.items[i].productId].price
        /\ c.sent # ClientSum(c.items)
        /\ c.sent = orders[c.orderId].amount

\* C7: every order that enters the store, by whichever route, has an amount
\* equal to the sum over its stored items of (stored price x quantity), and
\* each stored price is the catalog's price of the product.
C7_StoredAmountFromServerPrices ==
    [][\A o \in DOMAIN orders' \ DOMAIN orders :
          /\ orders'[o].amount = ClientSum(orders'[o].items)
          /\ \A i \in 1..Len(orders'[o].items) :
                /\ orders'[o].items[i].productId \in DOMAIN products
                /\ orders'[o].items[i].price =
                      products[orders'[o].items[i].productId].price]_vars

\* C8: while a session request to the collaborator is on its way, the order
\* it is for is in the store.
C8_OrderPersistedBeforeSession ==
    \A c \in pending : c.orderId \in DOMAIN orders

\* C9: when the checkout collaborator's session call fails, the caller is
\* answered 500 with the collaborator's message (the service's own text
\* when the failure carried none), the order saved before the call is still
\* in the store, unchanged and in status created, and no new call is made.
C9_FailedSessionKeepsOrder ==
    [][\A c \in pending \ pending' :
          (c.route = "faster" /\ req'.outcome # "ok")
          => /\ resp'.code = 500
             /\ resp'.error = IF req'.outcome = "fail_msg" THEN "collaborator message"
                              ELSE "Failed to create Faster Checkout session"
             /\ c.orderId \in DOMAIN orders'
             /\ orders' = orders
             /\ orders'[c.orderId].status = "created"
             /\ pending' \subseteq pending]_vars

\* A session call has failed with the collaborator's message and the order
\* of that instant is in the store, created.
C9_Witness ==
    /\ req.op = "POST /faster-checkout/create"
    /\ req.outcome = "fail_msg"
    /\ resp.error = "collaborator message"
    /\ pending = {}
    /\ <<"BREWY", now>> \in DOMAIN orders
    /\ orders[<<"BREWY", now>>].status = "created"
    /\ orders[<<"BREWY", now>>].razorpayOrderId = <<"BREWY", now>>

\* The request before this one was the same catalog webhook with the same
\* body, was verified and was applied.
SameAppliedBefore ==
    /\ req'.op \in CatalogWebhooks
    /\ req.op = req'.op
    /\ req.body = req'.body
    /\ PassedVerifier(req)
    /\ PassedVerifier(req')
    /\ resp.code = 200

C12_StoredHandleKept ==
    [][req'.op \in CatalogWebhooks
       => /\ \A id \in DOMAIN products :
               "handle" \in DOMAIN products[id]
               => products'[id].handle = products[id].handle
          /\ \A id \in DOMAIN collections :
               "handle" \in DOMAIN collections[id]
               => collections'[id].handle = collections[id].handle]_vars

\* The stored dimensions of a product, 10 x 10 x 10 and 0.5 kg for a product
\* that has none; the largest value of an axis over the items; the sum of
\* weight x quantity.
StoredDimensions(productId) ==
    IF "dimensions" \in DOMAIN products[productId]
    THEN products[productId].dimensions
    ELSE [length |-> 10, breadth |-> 10, height |-> 10, weight |-> 50]

AxisMax(items, axis) ==
    LET values == { StoredDimensions(items[i].productId)[axis] : i \in 1..Len(items) }
    IN CHOOSE m \in values : \A v \in values : v <= m

WeightSum(items) ==
    LET Sum[k \in 0..Len(items)] ==
            IF k = 0 THEN 0
            ELSE Sum[k - 1] + StoredDimensions(items[k].productId).weight
                              * items[k].quantity
    IN Sum[Len(items)]

\* C13: for a paid order whose products are all in the catalog, the package
\* sent to the shipping collaborator has, on each axis, the largest stored
\* value of that axis over the ordered products, and as weight the sum of
\* product weight x quantity (10 x 10 x 10 and 0.5 for a product without
\* stored dimensions).
C13_PackageIsAxisMaxAndWeightSum ==
    [][(/\ req'.op = "POST /shipment/create"
        /\ resp'.calls # <<>>
        /\ \A i \in 1..Len(orders[req'.orderId].items) :
              orders[req'.orderId].items[i].productId \in DOMAIN products)
       => LET sent == resp'.calls[1].data
              items == orders[req'.orderId].items
          IN /\ sent.length = AxisMax(items, "length")
             /\ sent.breadth = AxisMax(items, "breadth")
             /\ sent.height = AxisMax(items, "height")
             /\ sent.weight = WeightSum(items)]_vars

\* The routes that open a checkout session.
SessionRoutes == {"POST /faster-checkout/create", "POST /payment/create-order"}

\* C14: an order that a session creation stores starts in status created
\* with amount = sum of catalog price x quantity (98 for 2 x 49); a valid
\* payment confirmation for it in created makes it paid; a successful
\* shipment creation for it in paid makes it shipped; a shipment creation
\* for it while still in created is refused with "Order must be paid before
\* creating shipment" and leaves it in created.
C14_CreatedPaidShipped ==
    [][/\ req'.op \in SessionRoutes
          => \A o \in DOMAIN orders' \ DOMAIN orders :
                /\ orders'[o].status = "created"
                /\ orders'[o].amount = ServerSum(orders'[o].items)
                /\ orders'[o].items = <<Item("prod_grape", 2, 49)>>
                   => orders'[o].amount = 98
       /\ (/\ VerifySupplied(req')
           /\ ~SignatureMismatch(req')
           /\ req'.orderId \in DOMAIN orders
           /\ orders[req'.orderId].status = "created")
          => /\ resp'.code = 200
             /\ orders'[req'.orderId].status = "paid"
       /\ (/\ req'.op = "POST /shipment/create"
           /\ req'.orderId \in DOMAIN orders
           /\ orders[req'.orderId].status = "paid"
           /\ resp'.code = 200)
          => orders'[req'.orderId].status = "shipped"
       /\ (/\ req'.op = "POST /shipment/create"
           /\ req'.orderId \in DOMAIN orders
           /\ orders[req'.orderId].status = "created")
          => /\ resp'.code = 400
             /\ resp'.error = "Order must be paid before creating shipment"
             /\ orders'[req'.orderId].status = "created"]_vars

\* The order of a payment session for 2 x prod_grape, amount 98, carries a
\* payment reference and a shipment reference and is shipped.
C14_Witness ==
    \E o \in DOMAIN orders :
        /\ o[1] = "ORD"
        /\ orders[o].items = <<Item("prod_grape", 2, 49)>>
        /\ orders[o].amount = 98
        /\ orders[o].razorpayPaymentId = "pay_1"
        /\ orders[o].shiprocketShipmentId = SrShipmentId(o)
        /\ orders[o].status = "shipped"
        /\ resp.op = "POST /shipment/create"
        /\ resp.code = 200

\* The order mutations that name their order, and the order they name.
NamedMutations ==
    { "PATCH /orders/status", "PATCH /orders/payment", "PATCH /orders/shipment",
      "POST /payment/verify-payment", "POST /shipment/create",
      "POST /shipment/cancel", "POST /faster-checkout/cancel",
      "POST /faster-checkout/webhook" }

Addressed(r) ==
    IF r.op = "POST /faster-checkout/webhook" THEN r.body.order_id
    ELSE IF r.op = "POST /payment/verify-payment"
    THEN (IF r.orderId = NoId THEN r.razorpayOrderId ELSE r.orderId)
    ELSE r.orderId

\* C15: an order mutation that passes authentication and validation and
\* names an order identifier that is not in the store is answered 404 (Not
\* Found) and leaves the order store as it was.
C15_MissingOrderNotFound ==
    [][(/\ req'.op \in NamedMutations
        /\ Addressed(req') # NoId
        /\ Addressed(req') \notin DOMAIN orders
        /\ resp'.code \notin {400, 401})
       => /\ resp'.code = 404
          /\ orders' = orders]_vars

\* C16: an order identifier that is in the store stays in the store over
\* every step of every route.
C16_OrdersNeverDeleted ==
    [][DOMAIN orders \subseteq DOMAIN orders']_vars

\* An order has been cancelled by the admin and is in the store, failed.
C16_Witness ==
    /\ req.op \in {"POST /shipment/cancel", "POST /faster-checkout/cancel"}
    /\ resp.code = 200
    /\ req.orderId \in DOMAIN orders
    /\ orders[req.orderId].status = "failed"

\* C17: no step changes the customer, the line items or the amount of an
\* order that is in the store, and the order stays under its identifier;
\* steps change only the status and the payment and shipping references.
C17_OrderContentImmutable ==
    [][\A o \in DOMAIN orders :
          /\ o \in DOMAIN orders'
          /\ orders'[o].customer = orders[o].customer
          /\ orders'[o].items = orders[o].items
          /\ orders'[o].amount = orders[o].amount]_vars

\* An order that was paid, shipped and then cancelled has the customer,
\* items and amount it was created with.
C17_Witness ==
    \E o \in DOMAIN orders :
        /\ orders[o].status = "failed"
        /\ orders[o].razorpayPaymentId = "pay_1"
        /\ orders[o].shiprocketShipmentId = SrShipmentId(o)
        /\ orders[o].trackingUrl = "track_url"
        /\ orders[o].customer = "cust_a"
        /\ orders[o].items = LedgerCart
        /\ orders[o].amount = 98

Absent(item) == item.productId \notin DOMAIN products

NotForSale(item) ==
    /\ ~Absent(item)
    /\ \/ "availableForSale" \notin DOMAIN products[item.productId]
       \/ products[item.productId].availableForSale = FALSE

Offending(items) == { i \in 1..Len(items) : Absent(items[i]) \/ NotForSale(items[i]) }

FirstOffending(items) ==
    items[CHOOSE i \in Offending(items) : \A j \in Offending(items) : i <= j]

WellFormedSession(r) ==
    /\ r.op \in SessionRoutes
    /\ "body" \in DOMAIN r
    /\ r.outcome = NONE
    /\ r.body.customer # NONE
    /\ "pickupPincode" \in DOMAIN r.body => r.body.pickupPincode # NONE
    /\ "amount" \in DOMAIN r.body => r.body.amount \notin {0, NaN}

C19_RejectedSessionLeavesNothing ==
    [][(WellFormedSession(req') /\ Offending(req'.body.items) # {}) =>
          LET item == FirstOffending(req'.body.items) IN
          /\ Absent(item) =>
                /\ resp'.code = 404
                /\ resp'.error = NotFoundText(item.productId)
          /\ NotForSale(item) =>
                /\ resp'.code = 400
                /\ resp'.error = UnavailableText(products[item.productId].name)
          /\ resp'.calls = <<>>
          /\ orders' = orders
          /\ pending' = pending]_vars

\* A session request for a product that is not in the catalog was answered
\* NotFound with the identifier while the store stayed empty.
C19_Witness ==
    /\ WellFormedSession(req)
    /\ req.op = "POST /faster-checkout/create"
    /\ Absent(req.body.items[1])
    /\ resp.code = 404
    /\ resp.error = "Product prod_missing not found"
    /\ orders = <<>>
    /\ pending = {}

\* C20: a catalog webhook request is let through to its handler exactly when
\* its signature is the hex HMAC-SHA256, under the server's secret, of the
\* text of the body it carries and its API key is the server's: a signature
\* made with another secret, for another body or text, in another encoding,
\* or sent with another key is answered 401. verifyWebhookHMAC returns true
\* exactly when the signature is the hex HMAC of the payload under the secret
\* it is given.
SignedWith(signature, secret, text) ==
    /\ signature # NoSig
    /\ signature[1] = "hmac"
    /\ signature[2] = secret
    /\ signature[3] = text

C20_VerificationSymmetric ==
    /\ req.op \in CatalogWebhooks =>
          (resp.code # 401 <=>
              /\ req.hdr.apiKey = "sr_key"
              /\ SignedWith(req.hdr.signature, "sr_secret", Stringify(req.body)))
    /\ req.op = "verifyWebhookHMAC" =>
          (resp.result <=> SignedWith(req.signature, req.secret, req.payload))

\* A correctly signed webhook for a new product was let through and the
\* product is in the catalog.
C20_Witness ==
    /\ req.op = "POST /shiprocket-webhooks/product"
    /\ req.hdr = SignedHeaders(req.body)
    /\ resp.code = 200
    /\ req.body.id = "prod_new"
    /\ "prod_new" \in DOMAIN products

\* No endpoint is requested twice by the same call.
OncePerEndpoint(calls) ==
    \A i, j \in DOMAIN calls : calls[i].endpoint = calls[j].endpoint => i = j

\* C21: no operation is retried. Whatever happens to a service call in a
\* step, it either got its token and issued its one request, or it returned:
\* then it is no longer in flight, the envelope lists the requests it
\* issued, each endpoint once, and reports an error when it failed.
C21_NoRetry ==
    [][\A c \in pending :
          \/ c \in pending'
          \/ /\ c.pc = "login"
             /\ \E d \in pending' :
                   /\ d.id = c.id
                   /\ d.pc = "call"
                   /\ d.calls = <<Call("auth/login", NoData), Call(c.fn, NoData)>>
          \/ /\ \A d \in pending' : d.id # c.id
             /\ resp'.op = c.fn
             /\ resp'.calls = c.calls
             /\ OncePerEndpoint(c.calls)
             /\ (c.pc = "login" => ~resp'.success)
             /\ (~resp'.success => resp'.error # NONE)]_vars

\* A call logged in, issued its request, and returned a failure after the
\* request failed.
C21_Witness ==
    /\ "success" \in DOMAIN resp
    /\ ~resp.success
    /\ resp.error = "collaborator message"
    /\ Len(resp.calls) = 2

\* The calls whose login succeeded in this step.
LoggedIn(service) ==
    {c \in pending : /\ c.service = service
                     /\ c.pc = "login"
                     /\ \E d \in pending' : d.id = c.id /\ d.pc = "call"}

\* C23: the token cache has no lock. A login that completes writes its own
\* token and expiry over whatever the cache holds, also when another
\* login of the same service completed before it, and nothing else writes
\* the cache: it holds what the last login to complete wrote.
C23_LastLoginWins ==
    [][\A service \in Services :
          IF LoggedIn(service) = {}
          THEN /\ authToken'[service] = authToken[service]
               /\ tokenExpiry'[service] = tokenExpiry[service]
          ELSE \A c \in LoggedIn(service) :
                  /\ authToken'[service] = Token(c.id)
                  /\ tokenExpiry'[service] = now + TokenTtl]_vars

\* Two calls found no valid token and each logged in: the second login
\* completed after the first and the cache holds the second one's token.
C23_Witness ==
    \E c, d \in pending :
        /\ c.id # d.id
        /\ c.service = d.service
        /\ c.pc = "call" /\ Len(c.calls) = 2
        /\ d.pc = "call" /\ Len(d.calls) = 2
        /\ authToken[c.service] = Token(d.id)
        /\ c.id < d.id

\* The calls that started in this step.
StartedCalls == {d \in pending' : \A c \in pending : c.id # d.id}

\* The calls whose login failed in this step.
LoginFailed == {c \in pending : c.pc = "login" /\ \A d \in pending' : d.id # c.id}

\* C30: a module's token and expiry are set together, by a successful
\* login only; a failed login leaves both as they were and the calling
\* function returns a failure envelope; and a call uses the cached token
\* without a login exactly when a token is present and now < expiry.
C30_TokenCacheDiscipline ==
    [][/\ \A service \in Services :
             /\ authToken'[service] = NoToken <=> tokenExpiry'[service] = 0
             /\ authToken'[service] # NoToken => tokenExpiry'[service] >= TokenTtl
       /\ \A c \in LoginFailed :
             /\ authToken' = authToken
             /\ tokenExpiry' = tokenExpiry
             /\ resp' = [op |-> c.fn, error |-> c.fallback,
                         calls |-> <<Call("auth/login", NoData)>>, success |-> FALSE]
       /\ \A d \in StartedCalls :
             IF authToken[d.service] # NoToken /\ now < tokenExpiry[d.service]
             THEN d.pc = "call" /\ d.calls = <<Call(d.fn, NoData)>>
             ELSE d.pc = "login" /\ d.calls = <<Call("auth/login", NoData)>>]_vars

\* A call used the unexpired cached token of one service without a login
\* while a call of the other service, made at the very millisecond its
\* token expired, logged in again.
C30_Witness ==
    /\ \E c \in pending :
          /\ c.pc = "call"
          /\ Len(c.calls) = 1
          /\ tokenExpiry[c.service] > now
    /\ \E d \in pending :
          /\ d.pc = "login"
          /\ authToken[d.service] # NoToken
          /\ now = tokenExpiry[d.service]

\* The requests whose order.save() ran in this step.
Saved == {c \in pending : c.pc = "save" /\ \A d \in pending' : d.id # c.id}

\* C22: the paid check of createShipment does not serialize requests. A
\* request is refused as unpaid only when the stored status is not paid,
\* also while another request for the order is in flight; every admitted
\* request calls the collaborator, and each one whose call succeeded then
\* writes its own shipment to the order.
C22_PaidCheckDoesNotSerialize ==
    [][/\ \A d \in StartedCalls : orders[d.orderId].status = "paid" /\ d.pc = "collab"
       /\ ( /\ pending' = pending
            /\ resp' # resp
            /\ resp'.op = "POST /shipment/create"
            /\ resp'.error = "Order must be paid before creating shipment" )
          => orders[req'.orderId].status # "paid"
       /\ \A c \in Saved :
             /\ orders'[c.orderId].status = "shipped"
             /\ orders'[c.orderId].shiprocketShipmentId = c.shipmentId]_vars

\* Two requests for one order passed the paid check, the collaborator
\* created a shipment for each, and neither has written to the order yet.
C22_Witness ==
    \E c, d \in pending :
        /\ c.id # d.id
        /\ c.orderId = d.orderId
        /\ c.pc = "save"
        /\ d.pc = "save"
        /\ orders[c.orderId].status = "paid"

\* C29: a status that a cancellation set to failed is not changed to
\* shipped by a createShipment request that was in flight.
C29_FailedNotShippedByInFlight ==
    [][\A c \in pending :
          orders[c.orderId].status = "failed" => orders'[c.orderId].status # "shipped"]_vars

\* A step of POST /api/faster-checkout/create up to its first await.
FasterCreateStep ==
    /\ req'.op = "POST /faster-checkout/create"
    /\ req'.outcome = NONE
    /\ <<req', resp', orders'>> # <<req, resp, orders>>
    /\ now' = now
    /\ products' = products
    /\ Cardinality(pending') >= Cardinality(pending)

\* C24: order identifiers are unique in the store. A session creation
\* whose generated identifier BREWY_<now> is already stored fails with 500
\* at order.save(), before any collaborator call, and no stored order is
\* modified, replaced or removed by it.
C24_DuplicateIdRejected ==
    [][(FasterCreateStep /\ <<"BREWY", now>> \in DOMAIN orders)
          => /\ orders' = orders
             /\ pending' = pending
             /\ resp'.code \in {400, 404, 500}
             /\ resp'.calls = <<>>
             /\ resp'.code = 500 => resp'.error = "Failed to create checkout session"]_vars

\* A second session creation in the same millisecond was refused by the
\* unique index while the first order is stored.
C24_Witness ==
    /\ resp = Response("POST /faster-checkout/create", 500,
                       "Failed to create checkout session")
    /\ <<"BREWY", now>> \in DOMAIN orders
    /\ FirstRejected(req.body.items) = 0

\* The step left field f of product id as it was: absent, or the same value.
FieldKept(id, f) ==
    LET had == id \in DOMAIN products /\ f \in DOMAIN products[id]
        has == id \in DOMAIN products' /\ f \in DOMAIN products'[id]
    IN /\ had <=> has
       /\ had => products'[id][f] = products[id][f]

CollaboratorRoutes ==
    { "POST /shipment/create", "POST /shipment/cancel",
      "POST /faster-checkout/cancel", "POST /faster-checkout/verify" }

\* C26: createShipment, cancelShipment, checkout cancellation and Faster
\* Checkout verify write to the ledger only after the collaborator reported
\* success: a request that changed an order answered 200 and had called
\* the collaborator, and one whose call failed left every order as it was.
C26_FailedCallLeavesLedger ==
    [][resp'.op \in CollaboratorRoutes
          => /\ orders' # orders => resp'.code = 200 /\ resp'.calls # <<>>
             /\ (resp'.calls # <<>> /\ resp'.code = 500) => orders' = orders]_vars

\* The collaborator refused to cancel the shipment of a shipped order, and
\* the order is shipped still, with its shipment references.
C26_Witness ==
    /\ resp.op = "POST /shipment/cancel"
    /\ resp.code = 500
    /\ resp.calls # <<>>
    /\ req.orderId \in DOMAIN orders
    /\ orders[req.orderId].status = "shipped"
    /\ orders[req.orderId].shiprocketShipmentId # NoId

\* The request carries the configured static password or a token signed
\* with the server's secret.
Credentialed(hdr) ==
    \/ env.ADMIN_PASSWORD # NONE /\ hdr.password = env.ADMIN_PASSWORD
    \/ hdr.token # <<>> /\ hdr.token[2] = JwtSecret

\* C28: a request without the configured admin password and without a
\* valid bearer token is answered 401 by the admin gate and changes no
\* order, whether or not ADMIN_PASSWORD is set.
C28_UncredentialedNeverAdmin ==
    [][( /\ req'.op = "POST /shipment/create"
         /\ resp'.op = "POST /shipment/create"
         /\ ~Credentialed(req'.hdr) )
       => /\ resp'.code = 401
          /\ orders' = orders]_vars

\* C27: verify-payment marks paid only the order the signature is about:
\* the order it sets to paid holds the razorpayOrderId of the request.
C27_PaidOrderIsTheSignedOne ==
    [][resp'.op = "POST /payment/verify-payment"
          => \A o \in DOMAIN orders :
                (orders'[o].status = "paid" /\ orders[o].status # "paid")
                   => orders[o].razorpayOrderId = req'.razorpayOrderId]_vars

====
